---- MODULE Spec2Model ----
(***************************************************************************)
(* Build signals and critical path of buck2_build_signals_impl (lib.rs):   *)
(* the producers (BuildSignalSender), the unbounded channel, the single    *)
(* receiver loop (BuildSignalReceiver::run_and_log) with load enrichment,  *)
(* the default backend, and the scope controller.                          *)
(*                                                                         *)
(* Option<T> is a sequence of length at most one.  Durations are natural   *)
(* numbers of seconds, far below the range where Duration arithmetic or    *)
(* the conversion to the wire format overflows.                            *)
(***************************************************************************)
EXTENDS Integers, Sequences, FiniteSets, TLC

VARIABLES
    queue,               \* the unbounded channel: signals sent and not yet received
    handles,             \* who holds a live Arc<BuildSignalSender>
    first_edge_to_load,  \* BuildSignalReceiver.first_edge_to_load
    backend,             \* BuildSignalReceiver.backend (the DefaultBackend's fields)
    rx_pc,               \* where the receiver task is in run_and_log
    events,              \* the summary events published by instant_event
    scope_pc,            \* where scope is
    func_result,         \* the result func returned, once it has
    scope_result,        \* the result scope returned, once it has
    soft_errors,         \* the categories soft_error! was called with
    hard_errors,         \* whether the process upgrades soft errors to failures
    last_call,           \* the last producer call: its arguments and what it returned
    sent,                \* history: every signal the channel accepted, in order
    dequeued,            \* history: how many signals the receiver took from the channel
    handed,              \* history: every signal handed to the backend, with the call made
    scope_bf_calls,      \* history: how often scope called build_finished
    calls,               \* how many producer calls the engine has made
    cp_map,              \* tests: the CriticalPathMap a test builds with cp_insert
    cp_result            \* tests: what extract_critical_path returned for cp_map

vars == <<queue, handles, first_edge_to_load, backend, rx_pc, events, scope_pc,
          func_result, scope_result, soft_errors, last_call, sent, dequeued,
          handed, scope_bf_calls, calls, cp_map, cp_result, hard_errors>>

\* The pipeline leaves the maps of the unit tests alone, and no step changes
\* how the process treats soft errors.
TestFrame == UNCHANGED <<cp_map, cp_result, hard_errors>>

(* ------------------------------ bounds -------------------------------- *)

MaxCalls == 3
MaxGraphCalls == 5

(* ------------------------------ Option -------------------------------- *)

None == <<>>
Some(x) == <<x>>

(* ------------------------------ NodeKey ------------------------------- *)

EngineKinds ==
    {"BuildKey", "AnalysisKey", "EnsureProjectedArtifactKey",
     "EnsureTransitiveSetProjectionKey", "DeferredCompute", "DeferredResolve",
     "ConfiguredTargetNodeKey", "InterpreterResultsKey"}

NodeKinds == EngineKinds \cup {"Materialization"}

\* A key is a kind and a payload; an opaque engine key (&dyn Any) is the same
\* with the type it really has, which may be none of the engine kinds.
Key(kind, id) == [kind |-> kind, id |-> id]

from_any_dropping(key) ==
    IF key.kind = "BuildKey" THEN Some(Key("BuildKey", key.id))
    ELSE IF key.kind = "AnalysisKey" THEN Some(Key("AnalysisKey", key.id))
    ELSE IF key.kind = "EnsureProjectedArtifactKey"
        THEN Some(Key("EnsureProjectedArtifactKey", key.id))
    ELSE IF key.kind = "EnsureTransitiveSetProjectionKey"
        THEN Some(Key("EnsureTransitiveSetProjectionKey", key.id))
    ELSE IF key.kind = "DeferredCompute" THEN Some(Key("DeferredCompute", key.id))
    ELSE IF key.kind = "ConfiguredTargetNodeKey"
        THEN Some(Key("ConfiguredTargetNodeKey", key.id))
    ELSE IF key.kind = "InterpreterResultsKey"
        THEN Some(Key("InterpreterResultsKey", key.id))
    ELSE None

from_any(key) ==
    IF key.kind = "BuildKey" THEN Some(Key("BuildKey", key.id))
    ELSE IF key.kind = "AnalysisKey" THEN Some(Key("AnalysisKey", key.id))
    ELSE IF key.kind = "EnsureProjectedArtifactKey"
        THEN Some(Key("EnsureProjectedArtifactKey", key.id))
    ELSE IF key.kind = "EnsureTransitiveSetProjectionKey"
        THEN Some(Key("EnsureTransitiveSetProjectionKey", key.id))
    ELSE IF key.kind = "DeferredCompute" THEN Some(Key("DeferredCompute", key.id))
    ELSE IF key.kind = "DeferredResolve" THEN Some(Key("DeferredResolve", key.id))
    ELSE IF key.kind = "ConfiguredTargetNodeKey"
        THEN Some(Key("ConfiguredTargetNodeKey", key.id))
    ELSE IF key.kind = "InterpreterResultsKey"
        THEN Some(Key("InterpreterResultsKey", key.id))
    ELSE None

\* deps.filter_map(NodeKey::from_any).collect()
RECURSIVE filter_map_from_any(_)
filter_map_from_any(deps) ==
    IF deps = <<>> THEN <<>>
    ELSE from_any(Head(deps)) \o filter_map_from_any(Tail(deps))

(* ---------------------------- NodeDuration ---------------------------- *)

NodeDuration(user, total) == [user |-> user, total |-> total]

zero == NodeDuration(0, 0)

critical_path_duration(duration) == duration.total

(* ----------------------------- BuildSignal ---------------------------- *)

Evaluation(key, duration, dep_keys, spans, action, load_result) ==
    [tag |-> "Evaluation", key |-> key, duration |-> duration, dep_keys |-> dep_keys,
     spans |-> spans, action |-> action, load_result |-> load_result]

TopLevelTargetSignal(label, artifacts) ==
    [tag |-> "TopLevelTarget", label |-> label, artifacts |-> artifacts]

FinalMaterializationSignal(artifact, duration, span_id) ==
    [tag |-> "FinalMaterialization", artifact |-> artifact, duration |-> duration,
     span_id |-> span_id]

BuildFinished == [tag |-> "BuildFinished"]

(* --------------------------- ActivationData --------------------------- *)

\* The three payload types key_activated knows, any other payload type, and
\* the activations that carry none.
BuildKeyActivationData(action, duration, spans) ==
    [type |-> "BuildKeyActivationData", action |-> action,
     node_duration |-> duration, spans |-> spans]

AnalysisKeyActivationData(duration, spans) ==
    [type |-> "AnalysisKeyActivationData", duration |-> duration, spans |-> spans]

\* result is the load's Result: Some(load result) for Ok, None for Err.  A load
\* result is the packages of the deps of its targets, in iteration order.
IntepreterResultsKeyActivationData(duration, result, spans) ==
    [type |-> "IntepreterResultsKeyActivationData", duration |-> duration,
     result |-> result, spans |-> spans]

OtherActivationData == [type |-> "Other"]

Evaluated(payload) == [tag |-> "Evaluated", payload |-> payload]

NotEvaluated == [tag |-> "NotEvaluated", payload |-> None]

\* downcast_and_take::<T>: the payload, if there is one and it is a T.
downcast_and_take(data, type) ==
    IF data # None /\ data[1].type = type THEN Some(data[1]) ELSE None

\* The Evaluation key_activated builds for a recognized key.
activation_signal(key, deps, activation_data) ==
    LET signal == Evaluation(key, zero, filter_map_from_any(deps), <<>>, None, None)
        data == activation_data.payload
        build == downcast_and_take(data, "BuildKeyActivationData")
        analysis == downcast_and_take(data, "AnalysisKeyActivationData")
        load == downcast_and_take(data, "IntepreterResultsKeyActivationData")
    IN  IF activation_data.tag # "Evaluated" THEN signal
        ELSE IF build # None
            THEN [signal EXCEPT !.action = Some(build[1].action),
                                !.duration = build[1].node_duration,
                                !.spans = build[1].spans]
        ELSE IF analysis # None
            THEN [signal EXCEPT
                    !.duration = NodeDuration(analysis[1].duration, analysis[1].duration),
                    !.spans = analysis[1].spans]
        ELSE IF load # None
            THEN [signal EXCEPT
                    !.duration = NodeDuration(load[1].duration, load[1].duration),
                    !.load_result = load[1].result,
                    !.spans = load[1].spans]
        ELSE signal

(* ----------------------------- iterators ------------------------------ *)

\* Itertools::unique: the first occurrence of each element, in order.
RECURSIVE unique(_)
unique(s) ==
    IF s = <<>> THEN <<>>
    ELSE LET front == unique(SubSeq(s, 1, Len(s) - 1))
             last == s[Len(s)]
         IN  IF \E i \in 1..Len(front) : front[i] = last THEN front
             ELSE Append(front, last)

\* Iterator::max_by_key over deps found in the map, keyed by their cumulative
\* duration: of several maximal elements the last one is returned.
RECURSIVE max_by_key(_, _)
max_by_key(s, predecessors) ==
    IF s = <<>> THEN None
    ELSE LET best == max_by_key(SubSeq(s, 1, Len(s) - 1), predecessors)
             last == s[Len(s)]
         IN  IF best # None
                /\ predecessors[best[1]].duration > predecessors[last].duration
             THEN best
             ELSE Some(last)

(* --------------------------- load enrichment -------------------------- *)

or_insert_overwriting(map, dep_pkg, pkg) == (dep_pkg :> pkg) @@ map

\* first_edge_to_load.entry(dep_pkg).or_insert_with(|| pkg)
or_insert(map, dep_pkg, pkg) ==
    IF dep_pkg \in DOMAIN map THEN map ELSE map @@ (dep_pkg :> pkg)

RECURSIVE record_first_edges_with_own_package(_, _, _)
record_first_edges_with_own_package(map, deps_pkg, pkg) ==
    IF deps_pkg = <<>> THEN map
    ELSE record_first_edges_with_own_package(or_insert(map, Head(deps_pkg), pkg),
                                             Tail(deps_pkg), pkg)

\* for dep_pkg in deps_pkg { if dep_pkg == *pkg { continue; } ... }
RECURSIVE record_first_edges(_, _, _)
record_first_edges(map, deps_pkg, pkg) ==
    IF deps_pkg = <<>> THEN map
    ELSE LET dep_pkg == Head(deps_pkg)
             next == IF dep_pkg = pkg THEN map ELSE or_insert(map, dep_pkg, pkg)
         IN  record_first_edges(next, Tail(deps_pkg), pkg)

enrich_load_without_edge(map, evaluation) ==
    IF evaluation.key.kind # "InterpreterResultsKey"
    THEN [first_edge_to_load |-> map, evaluation |-> evaluation]
    ELSE [first_edge_to_load |->
            IF evaluation.load_result # None
            THEN record_first_edges(map, unique(evaluation.load_result[1]),
                                    evaluation.key.id)
            ELSE map,
          evaluation |-> evaluation]

enrich_load_of_any_key(map, evaluation) ==
    LET pkg == evaluation.key.id
        recorded ==
            IF evaluation.load_result # None
            THEN record_first_edges(map, unique(evaluation.load_result[1]), pkg)
            ELSE map
    IN  [first_edge_to_load |-> recorded,
         evaluation |->
            IF pkg \in DOMAIN recorded
            THEN [evaluation EXCEPT !.dep_keys =
                    Append(@, Key("InterpreterResultsKey", recorded[pkg]))]
            ELSE evaluation]

\* enrich_load: the map and the evaluation it leaves.
enrich_load(map, evaluation) ==
    IF evaluation.key.kind # "InterpreterResultsKey"
    THEN [first_edge_to_load |-> map, evaluation |-> evaluation]
    ELSE LET pkg == evaluation.key.id
             recorded ==
                IF evaluation.load_result # None
                THEN record_first_edges(map, unique(evaluation.load_result[1]), pkg)
                ELSE map
         IN  [first_edge_to_load |-> recorded,
              evaluation |->
                IF pkg \in DOMAIN recorded
                THEN [evaluation EXCEPT !.dep_keys =
                        Append(@, Key("InterpreterResultsKey", recorded[pkg]))]
                ELSE evaluation]

(* --------------------------- default backend -------------------------- *)

NodeData(action, duration, span_ids) ==
    [action |-> action, duration |-> duration, span_ids |-> span_ids]

CriticalPathNode(duration, value, prev) ==
    [duration |-> duration, value |-> value, prev |-> prev]

DefaultBackend_new ==
    [name |-> "default", predecessors |-> <<>>, num_nodes |-> 0, num_edges |-> 0]

DefaultBackend_process_node_linking_absent_deps(self, key, value, duration, dep_keys, span_ids) ==
    LET deps == unique(dep_keys)
        found == SelectSeq(deps, LAMBDA node_key : node_key \in DOMAIN self.predecessors)
        longest_ancestor == max_by_key(found, self.predecessors)
        data == NodeData(value, duration, span_ids)
        node ==
            IF longest_ancestor # None
            THEN CriticalPathNode(
                    self.predecessors[longest_ancestor[1]].duration
                        + critical_path_duration(duration),
                    data, Some(longest_ancestor[1]))
            ELSE CriticalPathNode(critical_path_duration(duration), data,
                                  IF deps = <<>> THEN None ELSE Some(deps[1]))
    IN  [self EXCEPT !.num_edges = @ + Len(deps),
                     !.num_nodes = @ + 1,
                     !.predecessors = (key :> node) @@ @]

DefaultBackend_process_node_counting_found_deps(self, key, value, duration, dep_keys, span_ids) ==
    LET deps == unique(dep_keys)
        found == SelectSeq(deps, LAMBDA node_key : node_key \in DOMAIN self.predecessors)
        longest_ancestor == max_by_key(found, self.predecessors)
        data == NodeData(value, duration, span_ids)
        node ==
            IF longest_ancestor # None
            THEN CriticalPathNode(
                    self.predecessors[longest_ancestor[1]].duration
                        + critical_path_duration(duration),
                    data, Some(longest_ancestor[1]))
            ELSE CriticalPathNode(critical_path_duration(duration), data, None)
    IN  [self EXCEPT !.num_edges = @ + Len(found),
                     !.num_nodes = @ + 1,
                     !.predecessors = (key :> node) @@ @]

DefaultBackend_process_node_inserting_first(self, key, value, duration, dep_keys, span_ids) ==
    LET data == NodeData(value, duration, span_ids)
        own == CriticalPathNode(critical_path_duration(duration), data, None)
        inserted == (key :> own) @@ self.predecessors
        deps == unique(dep_keys)
        found == SelectSeq(deps, LAMBDA node_key : node_key \in DOMAIN inserted)
        longest_ancestor == max_by_key(found, inserted)
        node ==
            IF longest_ancestor # None
            THEN CriticalPathNode(
                    inserted[longest_ancestor[1]].duration
                        + critical_path_duration(duration),
                    data, Some(longest_ancestor[1]))
            ELSE own
    IN  [self EXCEPT !.num_edges = @ + Len(deps),
                     !.num_nodes = @ + 1,
                     !.predecessors = (key :> node) @@ @]

DefaultBackend_process_node_adding_own(self, key, value, duration, dep_keys, span_ids) ==
    LET deps == unique(dep_keys)
        found == SelectSeq(deps, LAMBDA node_key : node_key \in DOMAIN self.predecessors)
        longest_ancestor == max_by_key(found, self.predecessors)
        data == NodeData(value, duration, span_ids)
        node ==
            IF longest_ancestor # None
            THEN CriticalPathNode(
                    critical_path_duration(
                        self.predecessors[longest_ancestor[1]].value.duration)
                        + critical_path_duration(duration),
                    data, Some(longest_ancestor[1]))
            ELSE CriticalPathNode(critical_path_duration(duration), data, None)
    IN  [self EXCEPT !.num_edges = @ + Len(deps),
                     !.num_nodes = @ + 1,
                     !.predecessors = (key :> node) @@ @]

DefaultBackend_process_node(self, key, value, duration, dep_keys, span_ids) ==
    LET deps == unique(dep_keys)
        found == SelectSeq(deps, LAMBDA node_key : node_key \in DOMAIN self.predecessors)
        longest_ancestor == max_by_key(found, self.predecessors)
        data == NodeData(value, duration, span_ids)
        node ==
            IF longest_ancestor # None
            THEN CriticalPathNode(
                    self.predecessors[longest_ancestor[1]].duration
                        + critical_path_duration(duration),
                    data, Some(longest_ancestor[1]))
            ELSE CriticalPathNode(critical_path_duration(duration), data, None)
    IN  [self EXCEPT !.num_edges = @ + Len(deps),
                     !.num_nodes = @ + 1,
                     !.predecessors = (key :> node) @@ @]

\* The keys max_by_key can return as the tail: the map iterates in an order
\* the program does not fix, so any key of maximal cumulative duration.
tails(predecessors) ==
    IF DOMAIN predecessors = {} THEN {None}
    ELSE {Some(k) : k \in {k \in DOMAIN predecessors :
            \A o \in DOMAIN predecessors :
                predecessors[o].duration <= predecessors[k].duration}}

RECURSIVE walk_until_longer_than_map(_, _, _, _)
walk_until_longer_than_map(predecessors, tail, path, visited) ==
    IF tail = None \/ Len(path) > Cardinality(DOMAIN predecessors)
    THEN [ok |-> TRUE, path |-> path, visits |-> Len(path)]
    ELSE LET v == tail[1] IN
         IF v \in DOMAIN predecessors
         THEN walk_until_longer_than_map(
                predecessors, predecessors[v].prev,
                Append(path, [key |-> v, value |-> predecessors[v].value,
                              duration |-> predecessors[v].duration]),
                visited \cup {v})
         ELSE [ok |-> TRUE, path |-> path, visits |-> Len(path) + 1]

\* The while loop of extract_critical_path: the path from the tail back, or
\* the key seen twice; visits counts the iterations of the loop.
RECURSIVE walk(_, _, _, _)
walk(predecessors, tail, path, visited) ==
    IF tail = None
    THEN [ok |-> TRUE, path |-> path, visits |-> Cardinality(visited)]
    ELSE LET v == tail[1] IN
         IF v \in visited
         THEN [ok |-> FALSE, path |-> <<>>, visits |-> Cardinality(visited) + 1]
         ELSE IF v \in DOMAIN predecessors
            THEN walk(predecessors, predecessors[v].prev,
                      Append(path, [key |-> v, value |-> predecessors[v].value,
                                    duration |-> predecessors[v].duration]),
                      visited \cup {v})
            ELSE walk(predecessors, None, path, visited \cup {v})

reverse(s) == [i \in 1..Len(s) |-> s[Len(s) + 1 - i]]

saturating_sub(a, b) == IF a > b THEN a - b ELSE 0

extract_critical_path_unchecked(predecessors, tail) ==
    LET walked == walk(predecessors, tail, <<>>, {})
        path == reverse(walked.path)
    IN  [ok |-> TRUE,
         path |-> [i \in 1..Len(path) |->
            IF i = 1 THEN path[i]
            ELSE [path[i] EXCEPT !.duration =
                    saturating_sub(path[i].duration, path[i - 1].duration)]]]

extract_critical_path_forward(predecessors, tail) ==
    LET walked == walk(predecessors, tail, <<>>, {})
        path == reverse(walked.path)
        difference[i \in 1..Len(path)] ==
            IF i = 1 THEN path[i].duration
            ELSE saturating_sub(path[i].duration, difference[i - 1])
    IN  IF ~walked.ok THEN [ok |-> FALSE, path |-> <<>>]
        ELSE [ok |-> TRUE,
              path |-> [i \in 1..Len(path) |->
                            [path[i] EXCEPT !.duration = difference[i]]]]

\* extract_critical_path with the tail max_by_key returned.
extract_critical_path(predecessors, tail) ==
    LET walked == walk(predecessors, tail, <<>>, {})
        path == reverse(walked.path)
    IN  IF ~walked.ok THEN [ok |-> FALSE, path |-> <<>>]
        ELSE [ok |-> TRUE,
              path |-> [i \in 1..Len(path) |->
                IF i = 1 THEN path[i]
                ELSE [path[i] EXCEPT !.duration =
                        saturating_sub(path[i].duration, path[i - 1].duration)]]]

DefaultBackend_finish(self, tail) ==
    LET extracted == extract_critical_path(self.predecessors, tail)
    IN  IF ~extracted.ok THEN [ok |-> FALSE, error |-> "Cycle in critical path"]
        ELSE [ok |-> TRUE,
              critical_path |-> [i \in 1..Len(extracted.path) |->
                    [key |-> extracted.path[i].key,
                     data |-> extracted.path[i].value,
                     potential_improvement |-> None]],
              num_nodes |-> self.num_nodes,
              num_edges |-> self.num_edges]

\* What a backend call leaves: the backend, and the soft errors it raised.
Processed(self, errors) == [backend |-> self, soft_errors |-> errors]

(* ------------------------- longest path graph ------------------------- *)

\* The graph builder, the graph and compute_critical_path_potentials are the
\* critical path library's.  A vertex is its index in keys; edges[v] are the
\* vertices v depends on.

\* Vertex and edge indices are 32 bit in the library; here they end at IndexLimit.
IndexLimit == 4

GraphBuilder_new == [keys |-> <<>>, data |-> <<>>, edges |-> <<>>]

vertices_count(graph) == Len(graph.keys)

RECURSIVE edges_count_upto(_, _)
edges_count_upto(graph, v) ==
    IF v = 0 THEN 0 ELSE Len(graph.edges[v]) + edges_count_upto(graph, v - 1)

edges_count(graph) == edges_count_upto(graph, Len(graph.edges))

\* keys.get(key): the vertex of a key, if it has one.
keys_get(graph, key) ==
    LET at == {v \in 1..Len(graph.keys) : graph.keys[v] = key}
    IN  IF at = {} THEN None ELSE Some(CHOOSE v \in at : TRUE)

RECURSIVE filter_map_keys_get(_, _)
filter_map_keys_get(graph, deps) ==
    IF deps = <<>> THEN <<>>
    ELSE keys_get(graph, Head(deps)) \o filter_map_keys_get(graph, Tail(deps))

\* GraphBuilder::push: a vertex for the key with an edge to every dep that
\* has a vertex, unless the key has one already or the indices are used up.
GraphBuilder_push(builder, key, deps, data) ==
    LET dep_vertices == filter_map_keys_get(builder, deps) IN
    IF keys_get(builder, key) # None THEN [err |-> "DuplicateKey", builder |-> builder]
    ELSE IF \/ vertices_count(builder) >= IndexLimit
            \/ edges_count(builder) + Len(dep_vertices) > IndexLimit
        THEN [err |-> "Overflow", builder |-> builder]
    ELSE [err |-> "None",
          builder |-> [keys |-> Append(builder.keys, key),
                       data |-> Append(builder.data, data),
                       edges |-> Append(builder.edges, dep_vertices)]]

\* anyhow::Result
Ok(value) == [ok |-> TRUE, value |-> value]
Err(error) == [ok |-> FALSE, error |-> error]

\* soft_error!(category, err)?: the macro reports the error and returns a
\* Result; its Err, which the `?` propagates, is what it returns when the
\* process upgrades soft errors to failures.
soft_error(category, hard) ==
    IF hard THEN Err("Upgraded warning to failure via $BUCK2_HARD_ERROR")
    ELSE Ok(category)

LongestPathGraphBackend_new ==
    [name |-> "longest-path-graph", builder |-> Ok(GraphBuilder_new),
     top_level_analysis |-> <<>>]

LongestPathGraphBackend_process_node_forgetting_error(self, key, action, duration, dep_keys, span_ids, hard) ==
    LET builder == IF self.builder.ok THEN self.builder.value ELSE GraphBuilder_new
        res == GraphBuilder_push(builder, key, dep_keys,
                                 NodeData(action, duration, span_ids))
    IN  IF res.err = "Overflow"
        THEN Processed([self EXCEPT !.builder = Err("Overflow")], <<>>)
        ELSE IF res.err = "DuplicateKey"
            THEN Processed(IF soft_error("critical_path_duplicate_key", hard).ok
                           THEN self
                           ELSE [self EXCEPT !.builder =
                                    soft_error("critical_path_duplicate_key", hard)],
                           <<"critical_path_duplicate_key">>)
        ELSE Processed([self EXCEPT !.builder = Ok(res.builder)], <<>>)

\* A poisoned builder drops the node; an overflow poisons the builder; a
\* duplicate key is a soft error, and the error soft_error! returns when soft
\* errors are failures poisons the builder as an overflow does.
LongestPathGraphBackend_process_node(self, key, action, duration, dep_keys, span_ids, hard) ==
    IF ~self.builder.ok THEN Processed(self, <<>>)
    ELSE LET res == GraphBuilder_push(self.builder.value, key, dep_keys,
                                      NodeData(action, duration, span_ids))
             reported == soft_error("critical_path_duplicate_key", hard)
         IN  IF res.err = "Overflow"
             THEN Processed([self EXCEPT !.builder = Err("Overflow")], <<>>)
             ELSE IF res.err = "DuplicateKey"
                 THEN Processed(IF reported.ok THEN self
                                ELSE [self EXCEPT !.builder = reported],
                                <<"critical_path_duplicate_key">>)
             ELSE Processed([self EXCEPT !.builder = Ok(res.builder)], <<>>)

VisibilityEdge(node, makes_visible) == [node |-> node, makes_visible |-> makes_visible]

LongestPathGraphBackend_process_top_level_target(self, analysis, artifacts) ==
    [self EXCEPT !.top_level_analysis = Append(@, VisibilityEdge(analysis, artifacts))]

\* We only traverse edges to things that produce artifacts.
ProducesArtifacts ==
    {"BuildKey", "EnsureTransitiveSetProjectionKey", "EnsureProjectedArtifactKey"}

RECURSIVE label_reachable_overwriting(_, _, _, _)
label_reachable_overwriting(graph, labels, stack, analysis) ==
    IF stack = <<>> THEN labels
    ELSE LET i == stack[Len(stack)]
             rest == SubSeq(stack, 1, Len(stack) - 1)
         IN  IF graph.keys[i].kind \notin ProducesArtifacts
             THEN label_reachable_overwriting(graph, labels, rest, analysis)
             ELSE label_reachable_overwriting(
                    graph,
                    [first_analysis |-> [labels.first_analysis EXCEPT ![i] = Some(analysis)],
                     n |-> labels.n + 1],
                    rest \o graph.edges[i], analysis)

\* while let Some(i) = queue.pop(): label what is reached and has no label yet.
RECURSIVE label_reachable(_, _, _, _)
label_reachable(graph, labels, stack, analysis) ==
    IF stack = <<>> THEN labels
    ELSE LET i == stack[Len(stack)]
             rest == SubSeq(stack, 1, Len(stack) - 1)
         IN  IF labels.first_analysis[i] # None
             THEN label_reachable(graph, labels, rest, analysis)
             ELSE IF graph.keys[i].kind \notin ProducesArtifacts
                 THEN label_reachable(graph, labels, rest, analysis)
             ELSE label_reachable(
                    graph,
                    [first_analysis |-> [labels.first_analysis EXCEPT ![i] = Some(analysis)],
                     n |-> labels.n + 1],
                    rest \o graph.edges[i], analysis)

\* for artifact in artifacts: skip the ones that were not built.
RECURSIVE label_artifacts(_, _, _, _)
label_artifacts(graph, labels, artifacts, analysis) ==
    IF artifacts = <<>> THEN labels
    ELSE LET artifact == keys_get(graph, Head(artifacts))
             labelled == IF artifact = None THEN labels
                         ELSE label_reachable(graph, labels, <<artifact[1]>>, analysis)
         IN  label_artifacts(graph, labelled, Tail(artifacts), analysis)

\* for visibility in &self.top_level_analysis: skip an analysis with no vertex.
RECURSIVE label_visibility(_, _, _)
label_visibility(graph, labels, top_level_analysis) ==
    IF top_level_analysis = <<>> THEN labels
    ELSE LET visibility == Head(top_level_analysis)
             analysis == keys_get(graph, visibility.node)
             labelled == IF analysis = None THEN labels
                         ELSE label_artifacts(graph, labels, visibility.makes_visible,
                                              analysis[1])
         IN  label_visibility(graph, labelled, Tail(top_level_analysis))

\* Graph::add_edges: every labelled vertex gets an edge to its label.
add_edges(graph, first_analysis, n) ==
    IF edges_count(graph) + n > IndexLimit THEN Err("Overflow")
    ELSE Ok([keys |-> graph.keys, data |-> graph.data,
             edges |-> [v \in 1..Len(graph.edges) |->
                IF first_analysis[v] # None
                THEN Append(graph.edges[v], first_analysis[v][1])
                ELSE graph.edges[v]]])

\* The graph finish() computes on: the builder's, with the first_analysis edges.
LongestPathGraphBackend_graph(self) ==
    IF ~self.builder.ok THEN Err(self.builder.error)
    ELSE LET graph == self.builder.value
             labels == label_visibility(
                graph, [first_analysis |-> [v \in 1..Len(graph.keys) |-> None], n |-> 0],
                self.top_level_analysis)
             added == add_edges(graph, labels.first_analysis, labels.n)
         IN  IF added.ok THEN added
             ELSE Err("Error adding first_analysis edges to graph")

deps_of(graph, v) == {graph.edges[v][i] : i \in 1..Len(graph.edges[v])}

\* What the vertices of the frontier depend on, in at most n steps.
RECURSIVE reach(_, _, _)
reach(graph, frontier, n) ==
    IF n = 0 THEN frontier
    ELSE reach(graph, frontier \cup UNION {deps_of(graph, w) : w \in frontier}, n - 1)

HasCycle(graph) ==
    \E v \in 1..Len(graph.keys) :
        v \in reach(graph, deps_of(graph, v), Len(graph.keys))

Maximum(numbers) == CHOOSE n \in numbers : \A m \in numbers : m <= n

\* The cost of the longest path that ends at v.
RECURSIVE path_cost(_, _, _)
path_cost(graph, durations, v) ==
    durations[v]
        + Maximum({0} \cup {path_cost(graph, durations, u) : u \in deps_of(graph, v)})

critical_path_cost(graph, durations) ==
    Maximum({0} \cup {path_cost(graph, durations, v) : v \in 1..Len(graph.keys)})

\* The longest paths that end at v, first vertex first.
RECURSIVE longest_paths_to(_, _, _)
longest_paths_to(graph, durations, v) ==
    IF deps_of(graph, v) = {} THEN {<<v>>}
    ELSE LET longest == Maximum({path_cost(graph, durations, u) : u \in deps_of(graph, v)})
         IN  UNION {{Append(path, v) : path \in longest_paths_to(graph, durations, u)} :
                    u \in {u \in deps_of(graph, v) :
                            path_cost(graph, durations, u) = longest}}

\* The paths compute_critical_path_potentials can return: which of several
\* longest ones it returns is the library's choice.
critical_paths(graph, durations) ==
    IF graph.keys = <<>> THEN {<<>>}
    ELSE UNION {longest_paths_to(graph, durations, v) :
                v \in {v \in 1..Len(graph.keys) :
                    path_cost(graph, durations, v) = critical_path_cost(graph, durations)}}

\* compute_critical_path_potentials: the path, its cost, and for each vertex
\* of the path the cost of the longest path if that vertex took no time.
compute_critical_path_potentials(graph, durations, path) ==
    IF HasCycle(graph) THEN Err("Cycle")
    ELSE Ok([critical_path |-> path,
             critical_path_cost |-> critical_path_cost(graph, durations),
             replacement_durations |-> [i \in 1..Len(path) |->
                critical_path_cost(graph, [durations EXCEPT ![path[i]] = 0])]])

\* Duration::as_micros and Duration::from_micros, durations being seconds.
MicrosPerSecond == 1000000
as_micros(duration) == duration * MicrosPerSecond
from_micros(micros) == micros \div MicrosPerSecond

graph_durations(graph) ==
    [v \in 1..Len(graph.data) |->
        as_micros(critical_path_duration(graph.data[v].duration))]

\* The critical paths finish() can come to report.
LongestPathGraphBackend_paths(self) ==
    LET built == LongestPathGraphBackend_graph(self)
    IN  IF ~built.ok \/ HasCycle(built.value) THEN {<<>>}
        ELSE critical_paths(built.value, graph_durations(built.value))

LongestPathGraphBackend_finish_potential_is_replacement(self, path) ==
    LET built == LongestPathGraphBackend_graph(self) IN
    IF ~built.ok THEN built
    ELSE LET graph == built.value
             computed == compute_critical_path_potentials(graph, graph_durations(graph),
                                                          path)
         IN  IF ~computed.ok THEN Err("Error computing critical path potentials")
             ELSE [ok |-> TRUE,
                   critical_path |-> [i \in 1..Len(path) |->
                        [key |-> graph.keys[path[i]],
                         data |-> graph.data[path[i]],
                         potential_improvement |->
                            Some(from_micros(computed.value.replacement_durations[i]))]],
                   num_nodes |-> vertices_count(graph),
                   num_edges |-> edges_count(graph)]

\* finish(): the potential of a vertex of the path is the cost of the path
\* less the cost of the longest path without that vertex's time; the
\* subtraction is of unsigned numbers, a negative result here is its underflow.
LongestPathGraphBackend_finish(self, path) ==
    LET built == LongestPathGraphBackend_graph(self) IN
    IF ~built.ok THEN built
    ELSE LET graph == built.value
             computed == compute_critical_path_potentials(graph, graph_durations(graph),
                                                          path)
         IN  IF ~computed.ok THEN Err("Error computing critical path potentials")
             ELSE [ok |-> TRUE,
                   critical_path |-> [i \in 1..Len(path) |->
                        [key |-> graph.keys[path[i]],
                         data |-> graph.data[path[i]],
                         potential_improvement |->
                            Some(from_micros(computed.value.critical_path_cost
                                    - computed.value.replacement_durations[i]))]],
                   num_nodes |-> vertices_count(graph),
                   num_edges |-> edges_count(graph)]

(* ------------------------------ summary ------------------------------- *)

report_entry_without_action_check(node) ==
    LET entry(kind) ==
            Some([entry |-> kind, key |-> Some(node.key), data |-> node.data,
                  potential_improvement |-> node.potential_improvement])
    IN  IF node.key.kind = "BuildKey" THEN entry("ActionExecution")
        ELSE IF node.key.kind = "AnalysisKey" THEN entry("Analysis")
        ELSE IF node.key.kind = "Materialization" THEN entry("Materialization")
        ELSE IF node.key.kind = "InterpreterResultsKey" THEN entry("Load")
        ELSE None

\* The filter_map of run_and_log: the report entry for a critical path node,
\* if it has one.
report_entry(node) ==
    LET entry(kind) ==
            Some([entry |-> kind, key |-> Some(node.key), data |-> node.data,
                  potential_improvement |-> node.potential_improvement])
    IN  IF node.key.kind = "BuildKey"
        THEN IF node.data.action = None THEN None ELSE entry("ActionExecution")
        ELSE IF node.key.kind = "AnalysisKey" THEN entry("Analysis")
        ELSE IF node.key.kind = "Materialization" THEN entry("Materialization")
        ELSE IF node.key.kind = "InterpreterResultsKey" THEN entry("Load")
        ELSE None

RECURSIVE filter_map_report_entry(_)
filter_map_report_entry(critical_path) ==
    IF critical_path = <<>> THEN <<>>
    ELSE report_entry(Head(critical_path)) \o filter_map_report_entry(Tail(critical_path))

meta_entry(compute_elapsed) ==
    [entry |-> "ComputeCriticalPath", key |-> None,
     data |-> NodeData(None, NodeDuration(0, compute_elapsed), <<>>),
     potential_improvement |-> Some(compute_elapsed)]

CriticalPathEntry2(e) ==
    [span_ids |-> e.data.span_ids,
     duration |-> critical_path_duration(e.data.duration),
     user_duration |-> e.data.duration.user,
     total_duration |-> e.data.duration.total,
     potential_improvement_duration |-> e.potential_improvement,
     entry |-> e.entry,
     key |-> e.key]

BuildGraphExecutionInfo_meta_entry_first(info, compute_elapsed, backend_name) ==
    LET chained == <<meta_entry(compute_elapsed)>>
                        \o filter_map_report_entry(info.critical_path)
    IN  [critical_path2 |-> [i \in 1..Len(chained) |-> CriticalPathEntry2(chained[i])],
         num_nodes |-> info.num_nodes,
         num_edges |-> info.num_edges,
         uses_total_duration |-> TRUE,
         backend_name |-> backend_name]

\* The event run_and_log publishes: the entries of the critical path that
\* are reported, chained with the entry for the computation itself.
BuildGraphExecutionInfo(info, compute_elapsed, backend_name) ==
    LET chained == Append(filter_map_report_entry(info.critical_path),
                          meta_entry(compute_elapsed))
    IN  [critical_path2 |-> [i \in 1..Len(chained) |-> CriticalPathEntry2(chained[i])],
         num_nodes |-> info.num_nodes,
         num_edges |-> info.num_edges,
         uses_total_duration |-> TRUE,
         backend_name |-> backend_name]

(* ---------------------------- backend calls --------------------------- *)

Backend_process_node(self, key, value, duration, dep_keys, span_ids, hard) ==
    IF self.name = "default"
    THEN Processed(DefaultBackend_process_node(self, key, value, duration, dep_keys,
                                               span_ids), <<>>)
    ELSE LongestPathGraphBackend_process_node(self, key, value, duration, dep_keys,
                                              span_ids, hard)

\* DefaultBackend::process_top_level_target does nothing.
Backend_process_top_level_target(self, analysis, artifacts) ==
    IF self.name = "default" THEN self
    ELSE LongestPathGraphBackend_process_top_level_target(self, analysis, artifacts)

Backend_finish(self, tail) ==
    IF self.name = "default" THEN DefaultBackend_finish(self, tail)
    ELSE LongestPathGraphBackend_finish(self, tail)

\* What finish() has to choose among: the tail, or the path.
Backend_tails(self) ==
    IF self.name = "default" THEN tails(self.predecessors)
    ELSE LongestPathGraphBackend_paths(self)

(* ------------------------------ receiver ------------------------------ *)

\* An artifact group is a built or source artifact (with or without an action
\* key) or a transitive set projection.
ArtifactGroup(group, key) == [group |-> group, key |-> key]

\* BuildArtifact::key: artifacts 2k-1 and 2k are outputs of action k.
artifact_key(artifact) == (artifact + 1) \div 2

resolve_artifact(dep) ==
    IF dep.group = "Artifact"
    THEN IF dep.key = None THEN None ELSE Some(Key("BuildKey", dep.key[1]))
    ELSE Some(Key("EnsureTransitiveSetProjectionKey", dep.key[1]))

RECURSIVE filter_map_resolve_artifact(_)
filter_map_resolve_artifact(artifacts) ==
    IF artifacts = <<>> THEN <<>>
    ELSE resolve_artifact(Head(artifacts)) \o filter_map_resolve_artifact(Tail(artifacts))

\* What one backend call leaves: the receiver's fields and the call, for the record.
Handled(map, processed, call) ==
    [first_edge_to_load |-> map, backend |-> processed.backend,
     soft_errors |-> processed.soft_errors, call |-> call]

ProcessNodeCall(key, value, duration, dep_keys, span_ids) ==
    [op |-> "process_node", key |-> key, value |-> value, duration |-> duration,
     dep_keys |-> dep_keys, span_ids |-> span_ids]

process_evaluation(map, self, evaluation, hard) ==
    LET enriched == enrich_load(map, evaluation)
        e == enriched.evaluation
    IN  Handled(enriched.first_edge_to_load,
                Backend_process_node(self, e.key, e.action, e.duration, e.dep_keys, e.spans,
                                     hard),
                ProcessNodeCall(e.key, e.action, e.duration, e.dep_keys, e.spans))

process_top_level_target(map, self, top_level) ==
    LET artifact_keys == filter_map_resolve_artifact(top_level.artifacts)
        analysis == Key("AnalysisKey", top_level.label)
    IN  Handled(map,
                Processed(Backend_process_top_level_target(self, analysis, artifact_keys),
                          <<>>),
                [op |-> "process_top_level_target", analysis |-> analysis,
                 artifacts |-> artifact_keys])

process_final_materialization(map, self, materialization, hard) ==
    LET dep == Key("BuildKey", artifact_key(materialization.artifact))
        key == Key("Materialization", materialization.artifact)
    IN  Handled(map,
                Backend_process_node(self, key, None, materialization.duration,
                                     <<dep>>, materialization.span_id, hard),
                ProcessNodeCall(key, None, materialization.duration, <<dep>>,
                                materialization.span_id))

\* The match of the receiver loop on a signal other than BuildFinished.
handle_signal(map, self, event, hard) ==
    IF event.tag = "Evaluation" THEN process_evaluation(map, self, event, hard)
    ELSE IF event.tag = "TopLevelTarget" THEN process_top_level_target(map, self, event)
    ELSE process_final_materialization(map, self, event, hard)

loop_pc_ignoring_finished(event) == "loop"

\* The loop goes on after every signal but BuildFinished, which breaks it.
loop_pc(event) == IF event.tag = "BuildFinished" THEN "finishing" ELSE "loop"

Terminated == {"done", "failed", "panicked"}

\* The receiver half of the channel lives as long as the task runs.
Closed == rx_pc \in Terminated

\* while let Some(event) = self.receiver.next().await { match event { ... } }
ReceiverNext ==
    /\ rx_pc = "loop"
    /\ queue # <<>>
    /\ LET event == Head(queue) IN
        /\ queue' = Tail(queue)
        /\ dequeued' = dequeued + 1
        /\ rx_pc' = loop_pc(event)
        /\ IF event.tag = "BuildFinished"
           THEN UNCHANGED <<first_edge_to_load, backend, handed, soft_errors>>
           ELSE \E done \in {handle_signal(first_edge_to_load, backend, event, hard_errors)} :
                /\ first_edge_to_load' = done.first_edge_to_load
                /\ backend' = done.backend
                /\ soft_errors' = soft_errors \o done.soft_errors
                /\ handed' = Append(handed, [signal |-> event, call |-> done.call])
    /\ TestFrame
    /\ UNCHANGED <<handles, events, scope_pc, func_result, scope_result,
                   last_call, sent, scope_bf_calls, calls>>

ReceiverEndOfStream_returning ==
    /\ rx_pc = "loop"
    /\ queue = <<>>
    /\ handles = {}
    /\ rx_pc' = "done"
    /\ TestFrame
    /\ UNCHANGED <<queue, handles, first_edge_to_load, backend, events, scope_pc,
                   func_result, scope_result, soft_errors, last_call, sent, dequeued,
                   handed, scope_bf_calls, calls>>

\* next() returns None: the channel is empty and every sender is dropped.
ReceiverEndOfStream ==
    /\ rx_pc = "loop"
    /\ queue = <<>>
    /\ handles = {}
    /\ rx_pc' = "finishing"
    /\ TestFrame
    /\ UNCHANGED <<queue, handles, first_edge_to_load, backend, events, scope_pc,
                   func_result, scope_result, soft_errors, last_call, sent, dequeued,
                   handed, scope_bf_calls, calls>>

\* now.elapsed(): what the clock measured for finish().
ComputeElapsed == {0, 1}

publish_twice(published, info, compute_elapsed, backend_name) ==
    LET event == BuildGraphExecutionInfo(info, compute_elapsed, backend_name)
    IN  IF info.ok THEN published \o <<event, event>> ELSE published

\* self.backend.finish()? returns early on an error; otherwise instant_event
\* publishes the one summary.
publish(published, info, compute_elapsed, backend_name) ==
    IF info.ok
    THEN Append(published, BuildGraphExecutionInfo(info, compute_elapsed, backend_name))
    ELSE published

\* After the loop: backend.finish()?, then the summary event.
ReceiverFinish ==
    /\ rx_pc = "finishing"
    /\ \E tail \in Backend_tails(backend), compute_elapsed \in ComputeElapsed :
       \E info \in {Backend_finish(backend, tail)} :
       \E published \in {publish(events, info, compute_elapsed, backend.name)} :
        /\ events' = published
        /\ rx_pc' = IF info.ok THEN "done" ELSE "failed"
    /\ TestFrame
    /\ UNCHANGED <<queue, handles, first_edge_to_load, backend, scope_pc, func_result,
                   scope_result, soft_errors, last_call, sent, dequeued, handed,
                   scope_bf_calls, calls>>

\* The task ends without returning: a panic in it, or the runtime dropping it.
ReceiverPanic ==
    /\ rx_pc \in {"loop", "finishing"}
    /\ rx_pc' = "panicked"
    /\ TestFrame
    /\ UNCHANGED <<queue, handles, first_edge_to_load, backend, events, scope_pc,
                   func_result, scope_result, soft_errors, last_call, sent, dequeued,
                   handed, scope_bf_calls, calls>>

(* ------------------------------ producers ----------------------------- *)

\* UnboundedSender::send: Err once the receiver is dropped, and never blocks.
send_result == IF Closed THEN "Err" ELSE "Ok"

Send(signal) ==
    IF Closed THEN UNCHANGED <<queue, sent>>
    ELSE /\ queue' = Append(queue, signal)
         /\ sent' = Append(sent, signal)

outcome_propagating(result) == IF result = "Err" THEN "failed" ELSE "returned"

\* let _ignored = self.sender.send(..): the call returns whatever send did.
outcome(result) == "returned"

\* A caller outside scope holds a handle; MaxCalls bounds the calls of a run.
\* A run with the graph backend may make MaxGraphCalls, to fill a graph.
CallLimit == IF backend.name = "default" THEN MaxCalls ELSE MaxGraphCalls

CanCall == calls < CallLimit /\ handles \cap {"func", "engine"} # {}

Call(op, args, result) ==
    [op |-> op, args |-> args, send |-> result, outcome |-> outcome(result)]

ProducerFrame_resetting_loads ==
    /\ TestFrame
    /\ first_edge_to_load' = <<>>
    /\ UNCHANGED <<handles, backend, rx_pc, events, scope_pc, func_result,
                   scope_result, soft_errors, dequeued, handed, scope_bf_calls>>

\* The sender's methods take &self and hold only the channel's sender.
ProducerFrame ==
    /\ TestFrame
    /\ UNCHANGED <<handles, first_edge_to_load, backend, rx_pc, events, scope_pc,
                   func_result, scope_result, soft_errors, dequeued, handed,
                   scope_bf_calls>>

key_activated(key, deps, activation_data) ==
    /\ CanCall
    /\ calls' = calls + 1
    /\ LET node_key == from_any(key)
           args == [key |-> key, deps |-> deps, activation_data |-> activation_data]
       IN  IF node_key = None
           THEN /\ UNCHANGED <<queue, sent>>
                /\ last_call' = Call("key_activated", args, "NotSent")
           ELSE /\ Send(activation_signal(node_key[1], deps, activation_data))
                /\ last_call' = Call("key_activated", args, send_result)
    /\ ProducerFrame

top_level_target(label, artifacts) ==
    /\ CanCall
    /\ calls' = calls + 1
    /\ Send(TopLevelTargetSignal(label, artifacts))
    /\ last_call' = Call("top_level_target",
                         [label |-> label, artifacts |-> artifacts], send_result)
    /\ ProducerFrame

final_materialization(artifact, duration, span_id) ==
    /\ CanCall
    /\ calls' = calls + 1
    /\ Send(FinalMaterializationSignal(artifact, duration, span_id))
    /\ last_call' = Call("final_materialization",
                         [artifact |-> artifact, duration |-> duration,
                          span_id |-> span_id], send_result)
    /\ ProducerFrame

(* -------------------------------- scope ------------------------------- *)

\* func hands a clone of the installer to the engine (the activation tracker).
FuncInstall ==
    /\ scope_pc = "func"
    /\ "engine" \notin handles
    /\ handles' = handles \cup {"engine"}
    /\ TestFrame
    /\ UNCHANGED <<queue, first_edge_to_load, backend, rx_pc, events, scope_pc,
                   func_result, scope_result, soft_errors, last_call, sent, dequeued,
                   handed, scope_bf_calls, calls>>

\* The engine drops its clone.
EngineRelease ==
    /\ "engine" \in handles
    /\ handles' = handles \ {"engine"}
    /\ TestFrame
    /\ UNCHANGED <<queue, first_edge_to_load, backend, rx_pc, events, scope_pc,
                   func_result, scope_result, soft_errors, last_call, sent, dequeued,
                   handed, scope_bf_calls, calls>>

FuncResults == {"Ok(r)", "Err(e)"}

\* let result = func(installer.dupe()).await;
FuncReturns(result) ==
    /\ scope_pc = "func"
    /\ scope_pc' = "func_returned"
    /\ func_result' = result
    /\ handles' = handles \ {"func"}
    /\ TestFrame
    /\ UNCHANGED <<queue, first_edge_to_load, backend, rx_pc, events, scope_result,
                   soft_errors, last_call, sent, dequeued, handed, scope_bf_calls,
                   calls>>

\* installer.build_signals.build_finished();
ScopeBuildFinished ==
    /\ scope_pc = "func_returned"
    /\ scope_pc' = "joining"
    /\ Send(BuildFinished)
    /\ last_call' = Call("build_finished", <<>>, send_result)
    /\ scope_bf_calls' = scope_bf_calls + 1
    /\ TestFrame
    /\ UNCHANGED <<handles, first_edge_to_load, backend, rx_pc, events, func_result,
                   scope_result, soft_errors, dequeued, handed, calls>>

join_ready_at_once(pc) == TRUE

\* handle.await completes when the task has ended.
join_ready(pc) == pc \in Terminated

\* handle.await.context("Error joining critical path task")?; if let Err(e) =
\* res { soft_error!(..)?; } result
scope_returns(pc, result, hard) ==
    IF pc = "panicked" THEN "Err(Error joining critical path task)"
    ELSE IF pc = "failed" /\ ~soft_error("critical_path_computation_failed", hard).ok
        THEN "Err(Upgraded warning to failure via $BUCK2_HARD_ERROR)"
    ELSE result

\* let res = handle.await...; if let Err(e) = res { soft_error!(..)?; } result
ScopeJoin ==
    /\ scope_pc = "joining"
    /\ join_ready(rx_pc)
    /\ scope_pc' = "returned"
    /\ scope_result' = scope_returns(rx_pc, func_result, hard_errors)
    /\ soft_errors' = IF rx_pc = "failed"
                      THEN Append(soft_errors, "critical_path_computation_failed")
                      ELSE soft_errors
    /\ handles' = handles \ {"scope"}
    /\ TestFrame
    /\ UNCHANGED <<queue, first_edge_to_load, backend, rx_pc, events, func_result,
                   last_call, sent, dequeued, handed, scope_bf_calls, calls>>

\* The future of scope is dropped at one of its two awaits; with it go the
\* future of func, the installer and the join handle.
Cancel ==
    /\ scope_pc \in {"func", "joining"}
    /\ scope_pc' = "cancelled"
    /\ handles' = handles \ {"scope", "func"}
    /\ TestFrame
    /\ UNCHANGED <<queue, first_edge_to_load, backend, rx_pc, events, func_result,
                   scope_result, soft_errors, last_call, sent, dequeued, handed,
                   scope_bf_calls, calls>>

(* ------------------------------- inputs ------------------------------- *)

LoadKey(pkg) == Key("InterpreterResultsKey", pkg)

\* A load of pkg that took one second and found these dep packages.
Load(pkg, deps_pkg) ==
    [key |-> LoadKey(pkg), deps |-> <<>>,
     activation_data |->
        Evaluated(Some(IntepreterResultsKeyActivationData(1, Some(deps_pkg), <<>>)))]

\* Two packages whose targets depend on each other's.
Activations == {Load(1, <<2>>), Load(2, <<1>>)}

TopLevelTargets ==
    {[label |-> 1, artifacts |-> <<ArtifactGroup("Artifact", Some(1)),
                                   ArtifactGroup("Artifact", None)>>]}

FinalMaterializations ==
    {[artifact |-> 1, duration |-> NodeDuration(1, 1), span_id |-> None]}

(* --------------------------- specifications --------------------------- *)

\* start_listener has run and func has been called with its installer.
Init ==
    /\ queue = <<>>
    /\ handles = {"scope", "func"}
    /\ first_edge_to_load = <<>>
    /\ backend = DefaultBackend_new
    /\ rx_pc = "loop"
    /\ events = <<>>
    /\ scope_pc = "func"
    /\ func_result = "pending"
    /\ scope_result = "pending"
    /\ soft_errors = <<>>
    /\ last_call = [op |-> "none"]
    /\ sent = <<>>
    /\ dequeued = 0
    /\ handed = <<>>
    /\ scope_bf_calls = 0
    /\ calls = 0
    /\ cp_map = <<>>
    /\ cp_result = [called |-> FALSE]
    /\ hard_errors \in BOOLEAN

Next ==
    \/ \E a \in Activations : key_activated(a.key, a.deps, a.activation_data)
    \/ \E t \in TopLevelTargets : top_level_target(t.label, t.artifacts)
    \/ \E m \in FinalMaterializations :
            final_materialization(m.artifact, m.duration, m.span_id)
    \/ FuncInstall
    \/ EngineRelease
    \/ \E result \in FuncResults : FuncReturns(result)
    \/ ScopeBuildFinished
    \/ ScopeJoin
    \/ Cancel
    \/ ReceiverNext
    \/ ReceiverEndOfStream
    \/ ReceiverFinish

Spec == Init /\ [][Next]_vars

\* A scope whose engine holds no handle of its own: every handle is gone when
\* scope returns or is cancelled.
FairNext ==
    \/ \E a \in Activations : key_activated(a.key, a.deps, a.activation_data)
    \/ \E t \in TopLevelTargets : top_level_target(t.label, t.artifacts)
    \/ \E m \in FinalMaterializations :
            final_materialization(m.artifact, m.duration, m.span_id)
    \/ \E result \in FuncResults : FuncReturns(result)
    \/ ScopeBuildFinished
    \/ ScopeJoin
    \/ Cancel
    \/ ReceiverNext
    \/ ReceiverEndOfStream
    \/ ReceiverFinish

\* The receiver runs whenever it can: tokio polls a spawned task that is ready.
FairSpec ==
    /\ Init
    /\ [][FairNext]_vars
    /\ WF_vars(ReceiverNext) /\ WF_vars(ReceiverEndOfStream) /\ WF_vars(ReceiverFinish)

\* The same program on a runtime where the receiver task can end in a panic.
JoinNext == Next \/ ReceiverPanic

JoinSpec == Init /\ [][JoinNext]_vars

(* The boundary filter: activations of keys of every type, with deps of every  *)
(* type, and with the activation data of a key of another type.               *)

RawKinds == EngineKinds \cup {"Materialization", "Other"}

EveryKind ==
    <<Key("BuildKey", 1), Key("Other", 1), Key("AnalysisKey", 1),
      Key("EnsureProjectedArtifactKey", 1), Key("Materialization", 1),
      Key("EnsureTransitiveSetProjectionKey", 1), Key("DeferredCompute", 1),
      Key("DeferredResolve", 1), Key("Other", 2), Key("ConfiguredTargetNodeKey", 1),
      Key("InterpreterResultsKey", 1)>>

FilterDeps ==
    {<<>>, <<Key("Other", 1)>>,
     <<Key("Other", 1), Key("BuildKey", 2), Key("Other", 1), Key("BuildKey", 2)>>}

FilterActivations ==
    {[key |-> Key(kind, 1), deps |-> EveryKind, activation_data |-> NotEvaluated] :
        kind \in RawKinds}
    \cup {[key |-> Key("AnalysisKey", 2), deps |-> deps,
           activation_data |-> Evaluated(Some(AnalysisKeyActivationData(1, <<>>)))] :
            deps \in FilterDeps}
    \cup {[key |-> Key("AnalysisKey", 3), deps |-> <<>>,
           activation_data |->
                Evaluated(Some(BuildKeyActivationData(3, NodeDuration(1, 2), <<>>)))],
          [key |-> Key("BuildKey", 3), deps |-> <<>>,
           activation_data |->
                Evaluated(Some(IntepreterResultsKeyActivationData(1, Some(<<>>), <<>>)))]}

FilterNext ==
    \/ \E a \in FilterActivations : key_activated(a.key, a.deps, a.activation_data)
    \/ \E result \in FuncResults : FuncReturns(result)
    \/ ScopeBuildFinished
    \/ ScopeJoin
    \/ ReceiverNext
    \/ ReceiverFinish

FilterSpec == Init /\ [][FilterNext]_vars

\* The build of an action that took this long.
Built(id, deps, seconds) ==
    [key |-> Key("BuildKey", id), deps |-> deps,
     activation_data |->
        Evaluated(Some(BuildKeyActivationData(id, NodeDuration(seconds, seconds), <<>>)))]

(* Loads: three packages, load results that name each other, a failed load, *)
(* and the build of an action numbered like a package.                      *)

Packages == {1, 2, 3}

LoadFailed(pkg) ==
    [key |-> LoadKey(pkg), deps |-> <<>>,
     activation_data |->
        Evaluated(Some(IntepreterResultsKeyActivationData(1, None, <<>>)))]

LoadActivations ==
    {Load(1, <<2, 3>>), Load(1, <<3>>), Load(2, <<3, 2, 3>>), Load(2, <<1>>),
     Load(3, <<>>), Load(3, <<1, 2>>), LoadFailed(2),
     [key |-> LoadKey(3), deps |-> <<LoadKey(2)>>, activation_data |-> NotEvaluated],
     Built(2, <<LoadKey(2)>>, 1)}

LoadNext ==
    \/ \E a \in LoadActivations : key_activated(a.key, a.deps, a.activation_data)
    \/ \E result \in FuncResults : FuncReturns(result)
    \/ ScopeBuildFinished
    \/ ScopeJoin
    \/ ReceiverNext
    \/ ReceiverFinish

LoadSpec == Init /\ [][LoadNext]_vars

(* Order: a fixed set of activations with distinct keys, sent in any order. *)

OrderActivations ==
    {Built(1, <<>>, 2),
     Built(2, <<Key("BuildKey", 1)>>, 1),
     Built(3, <<Key("BuildKey", 1), Key("BuildKey", 2)>>, 1),
     Built(4, <<>>, 3)}

Activated(key) == \E i \in 1..Len(sent) : sent[i].tag = "Evaluation" /\ sent[i].key = key

\* The engine evaluates a key once.
key_activated_once(key, deps, activation_data) ==
    /\ ~Activated(key)
    /\ key_activated(key, deps, activation_data)

OrderNext ==
    \/ \E a \in OrderActivations : key_activated_once(a.key, a.deps, a.activation_data)
    \/ \E result \in FuncResults : FuncReturns(result)
    \/ ScopeBuildFinished
    \/ ScopeJoin
    \/ ReceiverNext
    \/ ReceiverFinish

OrderSpec == Init /\ [][OrderNext]_vars

(* The default backend: builds of three actions, evaluated in any order and *)
(* possibly more than once.                                                 *)

BackendActivations ==
    {Built(1, <<>>, 2), Built(1, <<>>, 3), Built(1, <<Key("BuildKey", 1)>>, 1),
     Built(1, <<Key("BuildKey", 2)>>, 1),
     Built(2, <<>>, 2), Built(2, <<Key("BuildKey", 1)>>, 1),
     Built(2, <<Key("BuildKey", 1), Key("BuildKey", 1), Key("BuildKey", 3)>>, 0),
     Built(3, <<>>, 3), Built(3, <<Key("BuildKey", 1), Key("BuildKey", 2)>>, 1),
     Built(3, <<Key("BuildKey", 2), Key("BuildKey", 1)>>, 1)}

BackendNext ==
    \/ \E a \in BackendActivations : key_activated(a.key, a.deps, a.activation_data)
    \/ \E result \in FuncResults : FuncReturns(result)
    \/ ScopeBuildFinished
    \/ ScopeJoin
    \/ ReceiverNext
    \/ ReceiverFinish

BackendSpec == Init /\ [][BackendNext]_vars

(* The unit tests: a map built with cp_insert, then extract_critical_path. *)

pipeline == <<queue, handles, first_edge_to_load, backend, rx_pc, events, scope_pc,
              func_result, scope_result, soft_errors, last_call, sent, dequeued,
              handed, scope_bf_calls, calls, hard_errors>>

\* The i32 keys and the durations (seconds) the tests insert.
TestKeys == 1..3
TestDurations == 0..3

cp_insert(key, prev, duration) ==
    /\ ~cp_result.called
    /\ cp_map' = (key :> CriticalPathNode(duration, Some(key), prev)) @@ cp_map
    /\ UNCHANGED cp_result
    /\ UNCHANGED pipeline

\* extract_critical_path(&predecessors), as the tests call it.
ExtractCriticalPath ==
    /\ ~cp_result.called
    /\ \E tail \in tails(cp_map) :
        cp_result' = [called |-> TRUE, tail |-> tail,
                      result |-> extract_critical_path(cp_map, tail)]
    /\ UNCHANGED cp_map
    /\ UNCHANGED pipeline

PathNext ==
    \/ \E key \in TestKeys, duration \in TestDurations :
       \E prev \in {None} \cup {Some(k) : k \in TestKeys} :
            cp_insert(key, prev, duration)
    \/ ExtractCriticalPath

PathSpec == Init /\ [][PathNext]_vars

(* The summary: nodes of every kind on the critical path. *)

\* A key of this kind that waited for the first action and was not evaluated
\* itself, or took a second to analyse or to load.
Waited(kind) ==
    [key |-> Key(kind, 1), deps |-> <<Key("BuildKey", 1)>>,
     activation_data |->
        IF kind = "AnalysisKey" THEN Evaluated(Some(AnalysisKeyActivationData(1, <<>>)))
        ELSE IF kind = "InterpreterResultsKey"
            THEN Evaluated(Some(IntepreterResultsKeyActivationData(1, Some(<<>>), <<>>)))
        ELSE NotEvaluated]

SummaryActivations ==
    {Built(1, <<>>, 1),
     [key |-> Key("BuildKey", 2), deps |-> <<Key("BuildKey", 1)>>,
      activation_data |-> NotEvaluated],
     Built(3, <<Key("BuildKey", 2)>> \o [i \in 1..Len(EveryKind) |->
                                            Key(EveryKind[i].kind, 1)], 1)}
    \cup {Waited(kind) : kind \in EngineKinds \ {"BuildKey"}}

SummaryMaterializations ==
    {[artifact |-> 5, duration |-> NodeDuration(1, 1), span_id |-> None]}

SummaryNext ==
    \/ \E a \in SummaryActivations : key_activated(a.key, a.deps, a.activation_data)
    \/ \E m \in SummaryMaterializations :
            final_materialization(m.artifact, m.duration, m.span_id)
    \/ \E result \in FuncResults : FuncReturns(result)
    \/ ScopeBuildFinished
    \/ ScopeJoin
    \/ ReceiverNext
    \/ ReceiverFinish

SummarySpec == Init /\ [][SummaryNext]_vars

(* The longest path graph backend: scope started with that backend. *)

GraphInit ==
    /\ queue = <<>>
    /\ handles = {"scope", "func"}
    /\ first_edge_to_load = <<>>
    /\ backend = LongestPathGraphBackend_new
    /\ rx_pc = "loop"
    /\ events = <<>>
    /\ scope_pc = "func"
    /\ func_result = "pending"
    /\ scope_result = "pending"
    /\ soft_errors = <<>>
    /\ last_call = [op |-> "none"]
    /\ sent = <<>>
    /\ dequeued = 0
    /\ handed = <<>>
    /\ scope_bf_calls = 0
    /\ calls = 0
    /\ cp_map = <<>>
    /\ cp_result = [called |-> FALSE]
    /\ hard_errors \in BOOLEAN

\* Builds that can come more than once, the second time with other data and
\* deps, and that have more edges than the graph has indices for.
GraphActivations ==
    {Built(1, <<>>, 1), Built(1, <<Key("BuildKey", 2)>>, 2),
     Built(2, <<Key("BuildKey", 1)>>, 10),
     Built(3, <<Key("BuildKey", 1), Key("BuildKey", 2)>>, 1),
     Built(4, <<Key("BuildKey", 1), Key("BuildKey", 2), Key("BuildKey", 3)>>, 1)}

GraphNext ==
    \/ \E a \in GraphActivations : key_activated(a.key, a.deps, a.activation_data)
    \/ \E result \in FuncResults : FuncReturns(result)
    \/ ScopeBuildFinished
    \/ ScopeJoin
    \/ ReceiverNext
    \/ ReceiverFinish

GraphSpec == GraphInit /\ [][GraphNext]_vars

(* Potentials: A(1s) -> B(10s) -> C(1s) with A -> D(5s) -> C, B possibly as *)
(* slow as D, and a top level target whose analysis makes B visible.        *)

PotentialActivations ==
    {Built(1, <<>>, 1),
     Built(2, <<Key("BuildKey", 1)>>, 10), Built(2, <<Key("BuildKey", 1)>>, 5),
     Built(4, <<Key("BuildKey", 1)>>, 5),
     Built(3, <<Key("BuildKey", 2), Key("BuildKey", 4)>>, 1),
     [key |-> Key("AnalysisKey", 1), deps |-> <<>>,
      activation_data |-> Evaluated(Some(AnalysisKeyActivationData(2, <<>>)))]}

PotentialTargets ==
    {[label |-> 1, artifacts |-> <<ArtifactGroup("Artifact", Some(2))>>]}

PotentialNext ==
    \/ \E a \in PotentialActivations :
            key_activated_once(a.key, a.deps, a.activation_data)
    \/ \E t \in PotentialTargets : top_level_target(t.label, t.artifacts)
    \/ \E result \in FuncResults : FuncReturns(result)
    \/ ScopeBuildFinished
    \/ ScopeJoin
    \/ ReceiverNext
    \/ ReceiverFinish

\* scope started with the graph backend in a process that leaves soft errors
\* soft.
SoftGraphInit == GraphInit /\ ~hard_errors

\* No key is activated twice here, so soft_error! is called by scope alone and
\* has no say in what finish() returns: soft errors are left soft.
PotentialSpec == SoftGraphInit /\ [][PotentialNext]_vars

(* Labeling: two analyses, build 2 that depends on build 1 through a deferred, *)
(* and top level targets that make the builds visible.                        *)

LabelActivations ==
    {Built(1, <<>>, 1),
     [key |-> Key("DeferredCompute", 1), deps |-> <<Key("BuildKey", 1)>>,
      activation_data |-> NotEvaluated],
     Built(2, <<Key("DeferredCompute", 1)>>, 1)}
    \cup {[key |-> Key("AnalysisKey", label), deps |-> <<>>,
           activation_data |-> Evaluated(Some(AnalysisKeyActivationData(1, <<>>)))] :
            label \in {1, 2}}

LabelTargets ==
    {[label |-> 1, artifacts |-> <<ArtifactGroup("Artifact", Some(2))>>],
     [label |-> 2, artifacts |-> <<ArtifactGroup("Artifact", Some(1)),
                                   ArtifactGroup("Artifact", Some(2))>>]}

\* A top level target is reported once.
top_level_target_once(label, artifacts) ==
    /\ \A i \in 1..Len(sent) : sent[i] # TopLevelTargetSignal(label, artifacts)
    /\ top_level_target(label, artifacts)

LabelNext ==
    \/ \E a \in LabelActivations :
            key_activated_once(a.key, a.deps, a.activation_data)
    \/ \E t \in LabelTargets : top_level_target_once(t.label, t.artifacts)
    \/ FuncReturns("Ok(r)")
    \/ ScopeBuildFinished
    \/ ScopeJoin
    \/ ReceiverNext
    \/ ReceiverFinish

\* As in PotentialSpec no key is activated twice: soft errors are left soft.
LabelSpec == SoftGraphInit /\ [][LabelNext]_vars

(* Every producer and scope step, with either backend. *)

\* Runs of at most MaxCalls calls, whichever the backend.
FrameNext == Next /\ calls' <= MaxCalls

FrameSpec == (Init \/ GraphInit) /\ [][FrameNext]_vars

(* Closing the channel: loads sent while scope runs, is cancelled or returns, *)
(* and the engine keeps or drops its handle; the receiver runs when it can.  *)

CloseNext ==
    \/ \E a \in Activations : key_activated(a.key, a.deps, a.activation_data)
    \/ FuncInstall
    \/ EngineRelease
    \/ \E result \in FuncResults : FuncReturns(result)
    \/ ScopeBuildFinished
    \/ ScopeJoin
    \/ Cancel
    \/ ReceiverNext
    \/ ReceiverEndOfStream
    \/ ReceiverFinish

CloseSpec ==
    /\ Init
    /\ [][CloseNext]_vars
    /\ WF_vars(ReceiverNext) /\ WF_vars(ReceiverEndOfStream) /\ WF_vars(ReceiverFinish)

(* The receiver loop and finish() as functions of the signals received. *)

\* The loop of run_and_log over these signals, from the receiver's state given.
RECURSIVE receive_all(_, _, _, _)
receive_all(map, self, signals, hard) ==
    IF signals = <<>> THEN self
    ELSE LET done == handle_signal(map, self, Head(signals), hard)
         IN  receive_all(done.first_edge_to_load, done.backend, Tail(signals), hard)

\* Every BuildInfo finish() can return for this backend.
finish_results(self) == {Backend_finish(self, tail) : tail \in Backend_tails(self)}

(* ------------------------------- claims ------------------------------- *)

IsFinished(signal) == signal.tag = "BuildFinished"

\* The signals sent before the first BuildFinished.
BeforeFinished(signals) ==
    LET at == {i \in 1..Len(signals) : IsFinished(signals[i])}
    IN  IF at = {} THEN signals
        ELSE SubSeq(signals, 1, (CHOOSE i \in at : \A j \in at : i <= j) - 1)

FinishedQueued == \E i \in 1..Len(queue) : IsFinished(queue[i])

FinishedDequeued == \E i \in 1..dequeued : IsFinished(sent[i])

LoopLeft == rx_pc \in {"finishing", "done", "failed"}

\* C1: the signals handed to the backend are, in order, the signals sent
\* before the first BuildFinished: never one sent after it, and all of them
\* once the loop is left, which is before backend.finish() is called.
C1_FifoUntilBuildFinished ==
    /\ Len(handed) <= Len(BeforeFinished(sent))
    /\ \A i \in 1..Len(handed) : handed[i].signal = sent[i]
    /\ LoopLeft => Len(handed) = Len(BeforeFinished(sent))

C1_Witness ==
    /\ rx_pc = "done"
    /\ FinishedDequeued
    /\ Len(handed) = 2
    /\ Len(sent) = 4
    /\ handed[1].signal.tag # handed[2].signal.tag

\* C2: scope calls build_finished at most once and only after func returned;
\* when scope has returned it has called it once and the receiver task has
\* ended, so no summary event is published after scope returns.
C2_ScopeFinishesOnceThenJoins ==
    /\ [](scope_bf_calls <= 1)
    /\ [](scope_bf_calls = 1 => func_result \in FuncResults)
    /\ [](scope_pc = "returned" => scope_bf_calls = 1 /\ rx_pc \in Terminated)
    /\ [][scope_pc = "returned" => events' = events]_vars

C2_Witness ==
    /\ scope_pc = "returned"
    /\ Len(events) = 1
    /\ scope_bf_calls = 1

\* C3: whenever the listener failed (the task could not be joined, or it
\* returned an error), scope returns the result of func.
C3_ScopeReturnsFuncResult ==
    (scope_pc = "returned" /\ rx_pc \in {"failed", "panicked"})
        => scope_result = func_result

\* C4: a BuildFinished in the channel is eventually dequeued and the receiver
\* task then ends; it has published one summary event if backend.finish()
\* succeeded and none if it failed, and never more than one.
C4_FinishedEndsReceiverOneSummary ==
    /\ FinishedQueued ~> (FinishedDequeued /\ rx_pc \in {"done", "failed"})
    /\ [](Len(events) <= 1)
    /\ [](rx_pc = "done" => Len(events) = 1)
    /\ [](rx_pc \in {"loop", "finishing", "failed"} => events = <<>>)

C4_Witness ==
    /\ FinishedDequeued
    /\ rx_pc = "failed"
    /\ events = <<>>
    /\ soft_errors = <<"critical_path_computation_failed">>

\* C5: once scope is cancelled while func runs, a BuildFinished has been sent.
C5_CancelStillSendsFinished ==
    (scope_pc = "cancelled" /\ func_result = "pending")
        => \E i \in 1..Len(sent) : IsFinished(sent[i])

\* C6: a producer call made once the receiver has exited returns normally
\* and changes nothing: not the channel, not the receiver's state or the
\* backend's, not the events published, not the result of func or of scope.
C6_CallAfterExitHasNoEffect ==
    [][((calls' # calls \/ scope_bf_calls' # scope_bf_calls) /\ Closed)
        => /\ last_call'.outcome = "returned"
           /\ UNCHANGED <<queue, sent, first_edge_to_load, backend, rx_pc, events,
                          handed, func_result, scope_result, soft_errors>>]_vars

C6_Witness ==
    /\ Closed
    /\ last_call.op = "build_finished"
    /\ last_call.send = "Err"
    /\ calls = MaxCalls

HandedSignals == [i \in 1..Len(handed) |-> handed[i].signal]

\* C7: the default backend's result does not depend on the order in which
\* Evaluations of distinct keys are processed: what finish() returns after
\* the receiver processed them is what it returns after processing the same
\* Evaluations in the opposite order.
C7_OrderIndependent ==
    rx_pc = "finishing"
        => finish_results(backend)
            = finish_results(receive_all(<<>>, DefaultBackend_new,
                                         reverse(HandedSignals), hard_errors))

Recognized(key) == key.kind \in EngineKinds

\* C8: key_activated with an unrecognized key enqueues nothing; with a
\* recognized key it enqueues one Evaluation of that key whose dep_keys are the
\* recognized deps in their order; no key the backend is handed, as a node or
\* as a dep, is unrecognized.
C8_BoundaryFilterClosure ==
    /\ [][(calls' # calls /\ last_call'.op = "key_activated" /\ ~Closed)
            => LET args == last_call'.args IN
               IF Recognized(args.key)
               THEN /\ Len(sent') = Len(sent) + 1
                    /\ queue' = Append(queue, sent'[Len(sent')])
                    /\ sent'[Len(sent')].tag = "Evaluation"
                    /\ sent'[Len(sent')].key = args.key
                    /\ sent'[Len(sent')].dep_keys = SelectSeq(args.deps, Recognized)
               ELSE UNCHANGED <<queue, sent>>]_vars
    /\ [](\A i \in 1..Len(handed) :
            /\ Recognized(handed[i].call.key)
            /\ \A j \in 1..Len(handed[i].call.dep_keys) :
                Recognized(handed[i].call.dep_keys[j]))

C8_Witness ==
    /\ last_call.op = "key_activated"
    /\ calls = 3
    /\ Len(handed) = 2
    /\ last_call.args.key.kind = "Other"
    /\ handed[1].signal.key.kind = "DeferredResolve"
    /\ Len(handed[1].call.dep_keys) = 8
    /\ handed[2].call.dep_keys = <<Key("BuildKey", 2), Key("BuildKey", 2)>>

\* The load result of this processed signal names package d, and it is not
\* the load of d itself.
Lists(signal, d) ==
    /\ signal.key.kind = "InterpreterResultsKey"
    /\ signal.load_result # None
    /\ signal.key.id # d
    /\ \E j \in 1..Len(signal.load_result[1]) : signal.load_result[1][j] = d

FirstListing(d) ==
    {i \in 1..Len(handed) :
        /\ Lists(handed[i].signal, d)
        /\ \A j \in 1..(i - 1) : ~Lists(handed[j].signal, d)}

\* C9: first_edge_to_load has an entry for d exactly when a processed load
\* listed d, and the entry is the package of the first processed load that
\* did; an entry is never overwritten or removed.
C9_FirstWriterWins ==
    /\ [](\A d \in Packages :
            IF FirstListing(d) = {} THEN d \notin DOMAIN first_edge_to_load
            ELSE /\ d \in DOMAIN first_edge_to_load
                 /\ \A i \in FirstListing(d) :
                        first_edge_to_load[d] = handed[i].signal.key.id)
    /\ [][\A d \in DOMAIN first_edge_to_load :
            /\ d \in DOMAIN first_edge_to_load'
            /\ first_edge_to_load'[d] = first_edge_to_load[d]]_vars

C9_Witness ==
    /\ Len(handed) = 3
    /\ DOMAIN first_edge_to_load = Packages
    /\ first_edge_to_load[3] = 1
    /\ \E i \in 1..Len(handed) :
        Lists(handed[i].signal, 3) /\ handed[i].signal.key.id = 2

HasDep(call, key) == \E j \in 1..Len(call.dep_keys) : call.dep_keys[j] = key

\* C10 as stated: at BuildFinished, for every d with first_edge_to_load[d] = p,
\* every node for load(d) handed to the backend has a dep on load(p).
C10_EveryLoadNodeHasFirstEdge ==
    LoopLeft =>
        \A d \in DOMAIN first_edge_to_load : \A i \in 1..Len(handed) :
            handed[i].call.key = LoadKey(d)
                => HasDep(handed[i].call, LoadKey(first_edge_to_load[d]))

\* C10 amended: at BuildFinished, for every d with first_edge_to_load[d] = p,
\* every node for load(d) that was handed to the backend after a load listing
\* d was processed has a dep on load(p).
C10_LaterLoadNodeHasFirstEdge ==
    LoopLeft =>
        \A d \in DOMAIN first_edge_to_load : \A i \in 1..Len(handed) :
            (/\ handed[i].call.key = LoadKey(d)
             /\ \E j \in 1..(i - 1) : Lists(handed[j].signal, d))
                => HasDep(handed[i].call, LoadKey(first_edge_to_load[d]))

C10_Witness ==
    /\ rx_pc = "done"
    /\ Len(handed) = 2
    /\ Lists(handed[1].signal, 2)
    /\ handed[2].call.key = LoadKey(2)
    /\ handed[2].signal.dep_keys = <<>>
    /\ handed[2].call.dep_keys = <<LoadKey(1)>>

\* Following prev from this key comes to an end without seeing a key twice.
PrevChainEnds(predecessors, key) == walk(predecessors, Some(key), <<>>, {}).ok

Acyclic(predecessors) == \A k \in DOMAIN predecessors : PrevChainEnds(predecessors, k)

\* No key was handed to process_node twice.
DistinctKeys ==
    \A i, j \in 1..Len(handed) : i # j => handed[i].call.key # handed[j].call.key

\* C11 as stated: after any sequence of process_node calls the prev relation
\* of the predecessors map has no cycle, and finish() does not fail.
C11_PrevNeverCyclic ==
    /\ Acyclic(backend.predecessors)
    /\ rx_pc # "failed"

\* C11 amended: after any sequence of process_node calls with pairwise
\* distinct keys the prev relation of the predecessors map has no cycle, and
\* finish() does not fail.
C11_PrevAcyclicForDistinctKeys ==
    DistinctKeys =>
        /\ Acyclic(backend.predecessors)
        /\ rx_pc # "failed"

C11_Witness ==
    /\ rx_pc = "done"
    /\ DistinctKeys
    /\ Len(handed) = 3
    /\ backend.predecessors[Key("BuildKey", 3)].prev = Some(Key("BuildKey", 2))
    /\ backend.predecessors[Key("BuildKey", 2)].prev = Some(Key("BuildKey", 1))
    /\ handed[1].call.dep_keys = <<Key("BuildKey", 1)>>

\* Each node's cumulative duration is its own critical-path duration, plus
\* the cumulative duration its prev has now.
CumulativeLaw(predecessors) ==
    \A k \in DOMAIN predecessors :
        LET node == predecessors[k]
            own == critical_path_duration(node.value.duration)
        IN  IF node.prev = None THEN node.duration = own
            ELSE /\ node.prev[1] \in DOMAIN predecessors
                 /\ node.duration = predecessors[node.prev[1]].duration + own

\* C12 as stated: in every reachable state of the default backend the
\* cumulative duration of a node is that of its prev plus its own duration,
\* and its own duration if it has no prev.
C12_CumulativeDurations == CumulativeLaw(backend.predecessors)

\* C12 amended: the same, in every state reached by process_node calls with
\* pairwise distinct keys.
C12_CumulativeDurationsForDistinctKeys ==
    DistinctKeys => CumulativeLaw(backend.predecessors)

C12_Witness ==
    /\ DistinctKeys
    /\ Len(handed) = 3
    /\ Key("BuildKey", 3) \in DOMAIN backend.predecessors
    /\ backend.predecessors[Key("BuildKey", 3)].prev = Some(Key("BuildKey", 2))
    /\ backend.predecessors[Key("BuildKey", 3)].duration = 4
    /\ backend.predecessors[Key("BuildKey", 2)].duration = 3

MaxCumulative(predecessors) ==
    {k \in DOMAIN predecessors :
        \A o \in DOMAIN predecessors : predecessors[o].duration <= predecessors[k].duration}

\* C13: when extract_critical_path succeeds on a non-empty map the path ends
\* at a node of maximal cumulative duration, and the path is determined by
\* the contents of the map; for an empty map the path is empty.
C13_MaximumSelection ==
    (cp_result.called /\ cp_result.result.ok)
        => LET path == cp_result.result.path IN
           /\ cp_map = <<>> => path = <<>>
           /\ cp_map # <<>> =>
                /\ path # <<>>
                /\ path[Len(path)].key \in MaxCumulative(cp_map)
           /\ \A tail \in tails(cp_map) :
                LET other == extract_critical_path(cp_map, tail)
                IN  other.ok => other.path = path

\* The key n prev steps away from this one, if the chain is that long.
RECURSIVE nth_prev(_, _, _)
nth_prev(predecessors, key, n) ==
    IF n = 0 THEN Some(key)
    ELSE LET before == nth_prev(predecessors, key, n - 1)
         IN  IF before = None \/ before[1] \notin DOMAIN predecessors THEN None
             ELSE predecessors[before[1]].prev

\* The prev chain from this key comes to some key a second time.
Revisits(predecessors, key) ==
    \E i, j \in 0..Cardinality(DOMAIN predecessors) :
        /\ i < j
        /\ nth_prev(predecessors, key, i) # None
        /\ nth_prev(predecessors, key, i) = nth_prev(predecessors, key, j)

\* C14 as stated: if any prev chain of the map revisits a node,
\* extract_critical_path returns an error.
C14_AnyCycleIsAnError ==
    (cp_result.called /\ \E k \in DOMAIN cp_map : Revisits(cp_map, k))
        => ~cp_result.result.ok

\* C14 amended: extract_critical_path returns an error exactly when the prev
\* chain from the node it selected as the tail revisits a node.
C14_CycleFromTailIsAnError ==
    (cp_result.called /\ cp_result.tail # None)
        => (Revisits(cp_map, cp_result.tail[1]) <=> ~cp_result.result.ok)

C14_Witness ==
    /\ cp_result.called
    /\ ~cp_result.result.ok
    /\ cp_result.tail = Some(2)
    /\ DOMAIN cp_map = {1, 2}
    /\ cp_map[1].prev = Some(2)
    /\ cp_map[2].prev = Some(1)

RECURSIVE SumDurations(_)
SumDurations(path) ==
    IF path = <<>> THEN 0 ELSE Head(path).duration + SumDurations(Tail(path))

\* C15: the duration returned for the first node of the path is its
\* cumulative duration, for each later node the cumulative duration minus
\* that of the node before it, or zero if that is negative; when cumulative
\* durations do not decrease along the path the returned durations sum to
\* the cumulative duration of the last node.
C15_CumulativeToContribution ==
    (cp_result.called /\ cp_result.result.ok)
        => LET path == cp_result.result.path
               cumulative(i) == cp_map[path[i].key].duration
           IN  /\ \A i \in 1..Len(path) :
                    path[i].duration =
                        IF i = 1 THEN cumulative(1)
                        ELSE IF cumulative(i) >= cumulative(i - 1)
                            THEN cumulative(i) - cumulative(i - 1)
                        ELSE 0
               /\ (path # <<>> /\ \A i \in 2..Len(path) : cumulative(i - 1) <= cumulative(i))
                    => SumDurations(path) = cumulative(Len(path))

C15_Witness ==
    /\ cp_result.called
    /\ cp_result.result.ok
    /\ Len(cp_result.result.path) = 3
    /\ cp_result.result.path[1].duration = 2
    /\ cp_result.result.path[2].duration = 0
    /\ cp_result.result.path[3].duration = 2
    /\ cp_map[cp_result.result.path[2].key].duration = 1

FilteredKinds ==
    {"EnsureProjectedArtifactKey", "EnsureTransitiveSetProjectionKey", "DeferredCompute",
     "DeferredResolve", "ConfiguredTargetNodeKey"}

\* A critical path node the report is to show.
Reported(node) ==
    /\ node.key.kind \notin FilteredKinds
    /\ node.key.kind = "BuildKey" => node.data.action # None

\* The entries of the published report but the last, which is the synthetic one.
ReportedEntries(event) == SubSeq(event.critical_path2, 1, Len(event.critical_path2) - 1)

\* C16: the report has no entry of a filtered kind and no BuildKey entry
\* without an action, and its entries are the other nodes of the critical
\* path that finish() returned, in the order of the path.
C16_SummaryFilter ==
    \A e \in 1..Len(events) :
        LET report == ReportedEntries(events[e]) IN
        /\ \A i \in 1..Len(report) :
            /\ report[i].key[1].kind \notin FilteredKinds
            /\ report[i].key[1].kind = "BuildKey" =>
                    backend.predecessors[report[i].key[1]].value.action # None
        /\ \E info \in finish_results(backend) :
            /\ info.ok
            /\ [i \in 1..Len(report) |-> report[i].key[1]]
                = LET shown == SelectSeq(info.critical_path, Reported)
                  IN  [i \in 1..Len(shown) |-> shown[i].key]

C16_Witness ==
    /\ rx_pc = "done"
    /\ Len(handed) = 3
    /\ Len(ReportedEntries(events[1])) = 2
    /\ ReportedEntries(events[1])[1].key = Some(Key("BuildKey", 1))
    /\ ReportedEntries(events[1])[2].key = Some(Key("BuildKey", 3))
    /\ backend.predecessors[Key("BuildKey", 3)].prev = Some(Key("DeferredResolve", 1))
    /\ backend.predecessors[Key("DeferredResolve", 1)].prev = Some(Key("BuildKey", 1))

(* --------------------- longest path graph: claims --------------------- *)

Graph == backend.builder.value

Poisoned == backend.name = "longest-path-graph" /\ ~backend.builder.ok

InGraph(key) == backend.builder.ok /\ keys_get(Graph, key) # None

\* The receiver takes the signal at the head of the queue in this step.
Receives == rx_pc = "loop" /\ queue # <<>> /\ dequeued' = dequeued + 1

ReceivesNode == Receives /\ Head(queue).tag = "Evaluation"

LastCall == handed[Len(handed)].call

\* The process_node call the receiver makes in this step.
NodeCall == handed'[Len(handed')].call

\* What push returns for the node the receiver takes in this step.
Pushed == GraphBuilder_push(Graph, NodeCall.key, NodeCall.dep_keys,
                            NodeData(NodeCall.value, NodeCall.duration,
                                     NodeCall.span_ids))

\* C17: a process_node call for a key that already has a vertex leaves the
\* backend as it was (vertices, data, edges and visibility edges), records the
\* soft error critical_path_duplicate_key and leaves the builder usable: a
\* later call for a new key that fits adds its vertex with its data.
C17_DuplicateKeyIsIdempotent ==
    [][/\ (ReceivesNode /\ InGraph(Head(queue).key))
            => /\ backend' = backend
               /\ backend'.builder.ok
               /\ soft_errors' = Append(soft_errors, "critical_path_duplicate_key")
       /\ (/\ ReceivesNode
           /\ backend.builder.ok
           /\ ~InGraph(Head(queue).key)
           /\ soft_errors # <<>>
           /\ GraphBuilder_push(Graph, Head(queue).key, Head(queue).dep_keys,
                                NodeData(None, zero, <<>>)).err = "None")
            => /\ backend'.builder.ok
               /\ vertices_count(backend'.builder.value) = vertices_count(Graph) + 1
               /\ keys_get(backend'.builder.value, Head(queue).key)
                    = Some(vertices_count(Graph) + 1)
               /\ backend'.builder.value.data[vertices_count(Graph) + 1]
                    = NodeData(Head(queue).action, Head(queue).duration,
                               Head(queue).spans)]_vars

\* C18: an overflow poisons the backend for good. The step that poisons it
\* stores the overflow error and leaves the receiver in its loop; from then on
\* no step changes the backend (later process_node calls drop their node), the
\* receiver goes on taking signals until BuildFinished as before, and finish()
\* returns the overflow error, so the receiver fails without a summary.
C18_OverflowPoisons ==
    [][/\ (backend.builder.ok /\ ~backend'.builder.ok)
            => /\ ReceivesNode
               /\ rx_pc' = "loop"
               /\ Pushed.err = "Overflow" <=> backend'.builder = Err("Overflow")
       /\ (ReceivesNode /\ backend.name = "longest-path-graph" /\ backend.builder.ok
                /\ Pushed.err = "Overflow")
            => backend'.builder = Err("Overflow")
       /\ (Poisoned /\ backend.builder = Err("Overflow"))
            => /\ backend' = backend
               /\ finish_results(backend) = {Err("Overflow")}
               /\ Receives => /\ queue' = Tail(queue)
                              /\ rx_pc' = IF IsFinished(Head(queue)) THEN "finishing"
                                          ELSE "loop"
               /\ (rx_pc = "loop" /\ queue # <<>>) => ENABLED ReceiverNext
               /\ (rx_pc = "finishing" /\ rx_pc' # rx_pc)
                    => rx_pc' = "failed" /\ events' = events]_vars

\* Builds 1, 2 and 3 fill the graph, build 4 has more edges than are left and
\* poisons it; a fifth call was dropped, BuildFinished was taken and finish()
\* failed.
C18_Witness ==
    /\ Len(handed) = 5
    /\ \A i \in 1..4 : handed[i].call.key = Key("BuildKey", i)
    /\ handed[1].call.dep_keys = <<>>
    /\ backend.builder = Err("Overflow")
    /\ rx_pc = "failed"
    /\ dequeued = 6
    /\ events = <<>>

\* The durations of the vertices, in seconds.
Seconds(graph) ==
    [v \in 1..Len(graph.data) |-> critical_path_duration(graph.data[v].duration)]

RECURSIVE SumSeconds(_)
SumSeconds(path) ==
    IF path = <<>> THEN 0
    ELSE critical_path_duration(Head(path).data.duration) + SumSeconds(Tail(path))

VertexOf(id) == keys_get(Graph, Key("BuildKey", id))[1]

\* A(1s) -> B(10s) -> C(1s) and A -> D(5s) -> C: builds 1, 2, 3 and 4.
ExampleGraph ==
    /\ backend.builder.ok
    /\ backend.top_level_analysis = <<>>
    /\ vertices_count(Graph) = 4
    /\ \A id \in 1..4 : InGraph(Key("BuildKey", id))
    /\ Seconds(Graph)[VertexOf(1)] = 1
    /\ Seconds(Graph)[VertexOf(2)] = 10
    /\ Seconds(Graph)[VertexOf(3)] = 1
    /\ Seconds(Graph)[VertexOf(4)] = 5
    /\ deps_of(Graph, VertexOf(1)) = {}
    /\ deps_of(Graph, VertexOf(2)) = {VertexOf(1)}
    /\ deps_of(Graph, VertexOf(4)) = {VertexOf(1)}
    /\ deps_of(Graph, VertexOf(3)) = {VertexOf(2), VertexOf(4)}

\* C19: whenever finish() succeeds, the durations on the path it returns sum
\* to the cost of the longest path; for each vertex of the path the cost of
\* the longest path with that vertex's duration set to zero is at most that
\* cost, the potential reported is the difference of the two, and it is at
\* most the vertex's own duration. On the example graph the path is A, B, C,
\* its durations sum to 12s and the potential of B is 5s.
C19_Potentials ==
    /\ \A path \in Backend_tails(backend) :
        LET info == Backend_finish(backend, path)
            built == LongestPathGraphBackend_graph(backend)
        IN  info.ok =>
            LET graph == built.value
                total == critical_path_cost(graph, Seconds(graph))
            IN  /\ Len(info.critical_path) = Len(path)
                /\ SumSeconds(info.critical_path) = total
                /\ \A i \in 1..Len(path) :
                    LET e == info.critical_path[i]
                        replacement ==
                            critical_path_cost(graph, [Seconds(graph) EXCEPT ![path[i]] = 0])
                    IN  /\ e.key = graph.keys[path[i]]
                        /\ e.data = graph.data[path[i]]
                        /\ replacement <= total
                        /\ e.potential_improvement = Some(total - replacement)
                        /\ total - replacement <= critical_path_duration(e.data.duration)
    /\ ExampleGraph =>
        \A info \in finish_results(backend) :
            /\ info.ok
            /\ [i \in 1..3 |-> info.critical_path[i].key]
                    = <<Key("BuildKey", 1), Key("BuildKey", 2), Key("BuildKey", 3)>>
            /\ Len(info.critical_path) = 3
            /\ SumSeconds(info.critical_path) = 12
            /\ info.critical_path[2].potential_improvement = Some(5)

\* The summary of the example graph was published: A, B and C and the entry
\* for the computation, 12s in all, B with a potential of 5s, A and C of 1s.
C19_Witness ==
    /\ ExampleGraph
    /\ rx_pc = "done"
    /\ Len(events) = 1
    /\ Len(events[1].critical_path2) = 4
    /\ [i \in 1..3 |-> events[1].critical_path2[i].key]
            = <<Some(Key("BuildKey", 1)), Some(Key("BuildKey", 2)),
                Some(Key("BuildKey", 3))>>
    /\ [i \in 1..3 |-> events[1].critical_path2[i].duration] = <<1, 10, 1>>
    /\ [i \in 1..3 |-> events[1].critical_path2[i].potential_improvement_duration]
            = <<Some(1), Some(5), Some(1)>>
    /\ events[1].num_nodes = 4
    /\ events[1].num_edges = 4

(* ------------------------------- frame -------------------------------- *)

\* A call of key_activated, top_level_target, final_materialization or
\* build_finished returns in this step.
ProducerStep == calls' # calls \/ scope_bf_calls' # scope_bf_calls

\* C20: a producer operation leaves the backend, first_edge_to_load and the
\* rest of the receiver's state as they are, and the queue either as it is or
\* with one signal appended; the backend and first_edge_to_load change only
\* in a step of the receiver loop that takes a signal other than
\* BuildFinished from the head of the queue.
C20_ProducersOnlySend ==
    [][/\ ProducerStep
            => /\ UNCHANGED <<first_edge_to_load, backend, rx_pc, events, soft_errors,
                              dequeued, handed>>
               /\ \/ queue' = queue
                  \/ \E i \in 1..Len(queue') : queue' = Append(queue, queue'[i])
       /\ (backend' # backend \/ first_edge_to_load' # first_edge_to_load)
            => /\ ~ProducerStep
               /\ Receives
               /\ ~IsFinished(Head(queue))
               /\ queue' = Tail(queue)
               /\ Len(handed') = Len(handed) + 1]_vars

\* The graph backend has a vertex and the receiver has recorded a load edge,
\* both after the receiver took signals, while a signal sent later waits.
C20_Witness ==
    /\ backend.name = "longest-path-graph"
    /\ backend.builder.ok
    /\ vertices_count(Graph) >= 1
    /\ first_edge_to_load # <<>>
    /\ dequeued = 2
    /\ calls = 3
    /\ Len(queue) = 1

(* --------------------- default backend: more claims -------------------- *)

\* The positions in dep_keys of the deps the map holds with the greatest
\* cumulative duration.
MaximalDeps(map, dep_keys) ==
    {i \in 1..Len(dep_keys) :
        /\ dep_keys[i] \in DOMAIN map
        /\ \A j \in 1..Len(dep_keys) :
            dep_keys[j] \in DOMAIN map => map[dep_keys[j]].duration <= map[dep_keys[i]].duration}

FirstMaximalDep(map, dep_keys) ==
    IF MaximalDeps(map, dep_keys) = {} THEN None
    ELSE Some(dep_keys[CHOOSE i \in MaximalDeps(map, dep_keys) :
                        \A j \in MaximalDeps(map, dep_keys) : i <= j])

\* C21 as stated: process_node sets prev to the dep with the greatest
\* cumulative duration among the deps the map holds, to the first of them in
\* dep_keys order if several share it, and to none if the map holds no dep.
C21_PrevIsFirstMaximalDep ==
    [][ReceivesNode
        => backend'.predecessors[NodeCall.key].prev
                = FirstMaximalDep(backend.predecessors, NodeCall.dep_keys)]_vars

\* C22: on every map, with or without a cycle, the loop of
\* extract_critical_path ends after at most as many iterations as the map
\* has nodes, plus one; and the keys of a path it returns are pairwise
\* distinct.
C22_WalkTerminates ==
    \A tail \in tails(cp_map) :
        LET walked == walk(cp_map, tail, <<>>, {})
            extracted == extract_critical_path(cp_map, tail)
        IN  /\ walked.visits <= Cardinality(DOMAIN cp_map) + 1
            /\ extracted.ok =>
                \A i, j \in 1..Len(extracted.path) :
                    i # j => extracted.path[i].key # extracted.path[j].key

\* The cycle 1 -> 2 -> 3 -> 1 was walked from 3: four iterations, the fourth
\* finding 3 a second time.
C22_Witness ==
    /\ cp_result.called
    /\ ~cp_result.result.ok
    /\ cp_result.tail = Some(3)
    /\ DOMAIN cp_map = {1, 2, 3}
    /\ cp_map[3].prev = Some(2)
    /\ cp_map[2].prev = Some(1)
    /\ cp_map[1].prev = Some(3)
    /\ walk(cp_map, cp_result.tail, <<>>, {}).visits = 4

(* -------------------------- enrichment: claims ------------------------- *)

IsLoad(key) == key.kind = "InterpreterResultsKey"

\* The packages the load result of this evaluation names, but for its own.
Listed(evaluation) ==
    IF IsLoad(evaluation.key) /\ evaluation.load_result # None
    THEN {evaluation.load_result[1][j] : j \in 1..Len(evaluation.load_result[1])}
            \ {evaluation.key.id}
    ELSE {}

\* C23: when the receiver processes an evaluation, first_edge_to_load gains
\* an entry, for the package of the evaluation, for each package its load
\* result names that had none, and nothing else changes in the map; the node
\* passed to the backend has the evaluation's dep_keys, with one dep on the
\* load key of first_edge_to_load[p] appended if the evaluation is the load
\* of p and the map now has an entry for p. So an evaluation that is not a
\* load, or a load with no load result, adds nothing to the map.
C23_EnrichmentStep ==
    [][ReceivesNode =>
        LET evaluation == Head(queue)
            p == evaluation.key.id
        IN  /\ DOMAIN first_edge_to_load'
                    = DOMAIN first_edge_to_load \cup Listed(evaluation)
            /\ \A d \in DOMAIN first_edge_to_load' :
                    first_edge_to_load'[d] =
                        IF d \in DOMAIN first_edge_to_load THEN first_edge_to_load[d]
                        ELSE p
            /\ NodeCall.key = evaluation.key
            /\ NodeCall.dep_keys =
                    IF IsLoad(evaluation.key) /\ p \in DOMAIN first_edge_to_load'
                    THEN Append(evaluation.dep_keys, LoadKey(first_edge_to_load'[p]))
                    ELSE evaluation.dep_keys
            /\ (~IsLoad(evaluation.key) \/ evaluation.load_result = None)
                    => first_edge_to_load' = first_edge_to_load]_vars

\* The load of package 1 named packages 2 and 3; the failed load of 2 got the
\* dep on the load of 1 and added nothing; the build of action 2 went to the
\* backend as it came.
C23_Witness ==
    /\ Len(handed) = 3
    /\ Listed(handed[1].signal) = {2, 3}
    /\ handed[2].signal.key = LoadKey(2)
    /\ handed[2].signal.load_result = None
    /\ handed[2].call.dep_keys = Append(handed[2].signal.dep_keys, LoadKey(1))
    /\ handed[3].signal.key = Key("BuildKey", 2)
    /\ handed[3].call.dep_keys = handed[3].signal.dep_keys
    /\ first_edge_to_load = (2 :> 1) @@ (3 :> 1)

(* --------------------------- labeling: claims -------------------------- *)

Unlabelled(graph) == [first_analysis |-> [v \in 1..Len(graph.keys) |-> None], n |-> 0]

\* The labels finish() computes for the graph built so far.
Labels == label_visibility(Graph, Unlabelled(Graph), backend.top_level_analysis)

Producing(graph, vertices) ==
    {v \in vertices : graph.keys[v].kind \in ProducesArtifacts}

\* The vertices that produce artifacts and are among these, or are deps of
\* such a vertex, and so on for n steps.
RECURSIVE ProducingClosure(_, _, _)
ProducingClosure(graph, vertices, n) ==
    IF n = 0 THEN vertices
    ELSE ProducingClosure(
            graph,
            vertices \cup Producing(graph, UNION {deps_of(graph, w) : w \in vertices}),
            n - 1)

Vertices(graph, node_keys) ==
    {keys_get(graph, node_keys[j])[1] :
        j \in {j \in 1..Len(node_keys) : keys_get(graph, node_keys[j]) # None}}

\* What the k-th visibility edge makes visible: nothing if its analysis has no
\* vertex, else what its artifacts that have a vertex reach through vertices
\* that produce artifacts.
MadeVisible(graph, edge) ==
    IF keys_get(graph, edge.node) = None THEN {}
    ELSE ProducingClosure(graph, Producing(graph, Vertices(graph, edge.makes_visible)),
                          Len(graph.keys))

FirstEdgeReaching(graph, edges, v) ==
    {k \in 1..Len(edges) :
        /\ v \in MadeVisible(graph, edges[k])
        /\ \A j \in 1..(k - 1) : v \notin MadeVisible(graph, edges[j])}

\* C24: in finish(), a vertex has a first_analysis label exactly when some
\* visibility edge whose analysis has a vertex reaches it from one of its
\* artifacts that has a vertex, through vertices of kind BuildKey,
\* EnsureTransitiveSetProjectionKey or EnsureProjectedArtifactKey only; the
\* label is the analysis of the first such edge in arrival order; and n is
\* the number of labelled vertices, which is the number of edges add_edges
\* adds.
C24_FirstAnalysisLabeling ==
    backend.builder.ok =>
        /\ \A v \in 1..vertices_count(Graph) :
            LET first == FirstEdgeReaching(Graph, backend.top_level_analysis, v)
            IN  /\ first = {} => Labels.first_analysis[v] = None
                /\ \A k \in first :
                    Labels.first_analysis[v]
                        = keys_get(Graph, backend.top_level_analysis[k].node)
                /\ Labels.first_analysis[v] # None
                    => Graph.keys[v].kind \in ProducesArtifacts
        /\ Labels.n = Cardinality({v \in 1..vertices_count(Graph) :
                                        Labels.first_analysis[v] # None})
        /\ LongestPathGraphBackend_graph(backend).ok
            => edges_count(LongestPathGraphBackend_graph(backend).value)
                    = edges_count(Graph) + Labels.n

\* Build 2 was made visible by analysis 2 and then by analysis 1, and keeps
\* analysis 2; build 1 was never built; the summary counts the one edge added.
C24_Witness ==
    /\ rx_pc = "done"
    /\ backend.builder.ok
    /\ Len(backend.top_level_analysis) = 2
    /\ backend.top_level_analysis[1].node = Key("AnalysisKey", 2)
    /\ backend.top_level_analysis[2].node = Key("AnalysisKey", 1)
    /\ InGraph(Key("AnalysisKey", 1))
    /\ InGraph(Key("BuildKey", 2))
    /\ ~InGraph(Key("BuildKey", 1))
    /\ Labels.first_analysis[VertexOf(2)] = keys_get(Graph, Key("AnalysisKey", 2))
    /\ Labels.n = 1
    /\ events[1].num_edges = 1

(* -------------------------- key_activated: claims ---------------------- *)

\* C25 as stated: in every Evaluation sent, action is set only if the key is
\* a BuildKey and load_result only if the key is an InterpreterResultsKey; and
\* the Evaluation sent for an activation that was not evaluated has the key
\* and the recognized deps, a zero duration, no action, no load result and no
\* spans.
C25_PayloadsMatchKeys ==
    /\ \A i \in 1..Len(sent) :
        sent[i].tag = "Evaluation" =>
            /\ sent[i].action # None => sent[i].key.kind = "BuildKey"
            /\ sent[i].load_result # None => sent[i].key.kind = "InterpreterResultsKey"
    /\ (/\ last_call.op = "key_activated"
        /\ last_call.send = "Ok"
        /\ last_call.args.activation_data.tag # "Evaluated")
        => sent[Len(sent)]
                = Evaluation(from_any(last_call.args.key)[1], zero,
                             filter_map_from_any(last_call.args.deps), <<>>, None, None)

(* ---------------------------- summary: claims -------------------------- *)

\* C26: every summary published has a ComputeCriticalPath entry as its last
\* entry and nowhere else; if the receiver processed no signal before it left
\* the loop, that entry is the whole report and num_nodes and num_edges are 0.
C26_ComputeEntryIsLast ==
    \A e \in 1..Len(events) :
        LET report == events[e].critical_path2 IN
        /\ report # <<>>
        /\ \A i \in 1..Len(report) :
            report[i].entry = "ComputeCriticalPath" <=> i = Len(report)
        /\ report[Len(report)].key = None
        /\ handed = <<>> =>
            /\ Len(report) = 1
            /\ events[e].num_nodes = 0
            /\ events[e].num_edges = 0

\* A summary of the graph backend with two loads and then the computation.
C26_Witness ==
    /\ rx_pc = "done"
    /\ backend.name = "longest-path-graph"
    /\ Len(events) = 1
    /\ Len(events[1].critical_path2) = 3
    /\ [i \in 1..3 |-> events[1].critical_path2[i].entry]
            = <<"Load", "Load", "ComputeCriticalPath">>

(* ---------------------- default backend: counters ---------------------- *)

DistinctDeps(call) == {call.dep_keys[j] : j \in 1..Len(call.dep_keys)}

RECURSIVE SumDistinctDeps(_)
SumDistinctDeps(handled) ==
    IF handled = <<>> THEN 0
    ELSE Cardinality(DistinctDeps(Head(handled).call)) + SumDistinctDeps(Tail(handled))

\* C27: num_nodes is the number of process_node calls made, num_edges the
\* sum over the calls of the number of distinct keys in dep_keys, in the map
\* or not; the map has at most num_nodes keys, and exactly num_nodes when no
\* key was processed twice.
C27_Counters ==
    /\ \A i \in 1..Len(handed) : handed[i].call.op = "process_node"
    /\ backend.num_nodes = Len(handed)
    /\ backend.num_edges = SumDistinctDeps(handed)
    /\ Cardinality(DOMAIN backend.predecessors) <= backend.num_nodes
    /\ Cardinality(DOMAIN backend.predecessors) = backend.num_nodes <=> DistinctKeys

\* Build 2 was processed with deps 1, 1 and 3 while only 1 was in the map,
\* and build 1 twice: three nodes, two edges, two keys.
C27_Witness ==
    /\ Len(handed) = 3
    /\ handed[1].call.key = Key("BuildKey", 1)
    /\ handed[2].call.key = Key("BuildKey", 2)
    /\ Len(handed[2].call.dep_keys) = 3
    /\ handed[3].call.key = Key("BuildKey", 1)
    /\ handed[3].call.dep_keys = <<>>
    /\ handed[1].call.dep_keys = <<>>
    /\ backend.num_nodes = 3
    /\ backend.num_edges = 2
    /\ DOMAIN backend.predecessors = {Key("BuildKey", 1), Key("BuildKey", 2)}

(* ----------------------- enrichment: order of edges -------------------- *)

\* The i-th node handed to the backend got a dep from enrich_load.
Enriched(i) == handed[i].call.dep_keys # handed[i].signal.dep_keys

EnrichedDep(i) == handed[i].call.dep_keys[Len(handed[i].call.dep_keys)]

\* Package p got a dep on the load of q.
EnrichmentEdges ==
    {<<handed[i].call.key.id, EnrichedDep(i).id>> :
        i \in {i \in 1..Len(handed) : Enriched(i)}}

\* The packages reached from these over at most n enrichment edges.
RECURSIVE EnrichmentReach(_, _)
EnrichmentReach(packages, n) ==
    IF n = 0 THEN packages
    ELSE EnrichmentReach(
            packages \cup {edge[2] : edge \in {edge \in EnrichmentEdges :
                                                    edge[1] \in packages}},
            n - 1)

\* C28: first_edge_to_load maps no package to itself; a dep that enrichment
\* appends to the evaluation of load(p) is on load(q) with q other than p,
\* a load of q was processed before this evaluation, and the backend has
\* load(q) in its predecessors map when it gets the node; and while no key
\* was processed twice the enrichment edges form no cycle.
C28_EnrichmentPointsBackwards ==
    /\ [](/\ \A d \in DOMAIN first_edge_to_load : first_edge_to_load[d] # d
          /\ \A i \in 1..Len(handed) :
                Enriched(i) =>
                    /\ IsLoad(handed[i].call.key)
                    /\ IsLoad(EnrichedDep(i))
                    /\ EnrichedDep(i) # handed[i].call.key
                    /\ \E j \in 1..(i - 1) : handed[j].call.key = EnrichedDep(i)
          /\ DistinctKeys =>
                \A edge \in EnrichmentEdges :
                    edge[1] \notin EnrichmentReach({edge[2]}, Cardinality(Packages)))
    /\ [][(ReceivesNode /\ NodeCall.dep_keys # Head(queue).dep_keys)
            => /\ NodeCall.dep_keys[Len(NodeCall.dep_keys)]
                    \in DOMAIN backend.predecessors
               /\ NodeCall.dep_keys[Len(NodeCall.dep_keys)] # NodeCall.key]_vars

\* The load of package 1 named 2 and 3; the loads of 2 and of 3, processed
\* after it, each got the dep on the load of 1 and have it as prev.
C28_Witness ==
    /\ Len(handed) = 3
    /\ DistinctKeys
    /\ handed[1].call.key = LoadKey(1)
    /\ handed[2].call.key = LoadKey(2)
    /\ handed[3].call.key = LoadKey(3)
    /\ EnrichmentEdges = {<<2, 1>>, <<3, 1>>}
    /\ backend.predecessors[LoadKey(2)].prev = Some(LoadKey(1))
    /\ backend.predecessors[LoadKey(3)].prev = Some(LoadKey(1))

(* ------------------------- end of stream: claims ----------------------- *)

NoSender == handles = {}

FinishedSent == \E i \in 1..Len(sent) : IsFinished(sent[i])

\* C29: once no sender remains the receiver leaves its loop and ends; the
\* loop is left without a BuildFinished only when there is no sender and the
\* queue is empty, with every signal sent processed and nothing else changed;
\* and after the loop the receiver does what it does after BuildFinished: one
\* call of finish(), one summary if it succeeds, none if it fails.
C29_EndOfStreamEndsReceiver ==
    /\ (NoSender /\ rx_pc = "loop") ~> (rx_pc \in {"done", "failed"})
    /\ [][(rx_pc = "loop" /\ rx_pc' # "loop" /\ dequeued' = dequeued)
            => /\ NoSender
               /\ queue = <<>>
               /\ ~FinishedSent
               /\ HandedSignals = sent
               /\ rx_pc' = "finishing"
               /\ UNCHANGED <<queue, backend, first_edge_to_load, events, handed>>]_vars
    /\ [][rx_pc = "finishing" /\ rx_pc' # rx_pc
            => \E tail \in Backend_tails(backend), compute_elapsed \in ComputeElapsed :
                LET info == Backend_finish(backend, tail) IN
                /\ rx_pc' = IF info.ok THEN "done" ELSE "failed"
                /\ events' = IF info.ok
                             THEN <<BuildGraphExecutionInfo(info, compute_elapsed,
                                                            backend.name)>>
                             ELSE <<>>]_vars
    /\ [](rx_pc = "done" => Len(events) = 1)

\* Scope was cancelled, the engine dropped its handle, and the receiver
\* published the summary of the two loads without any BuildFinished.
C29_Witness ==
    /\ scope_pc = "cancelled"
    /\ NoSender
    /\ ~FinishedSent
    /\ rx_pc = "done"
    /\ Len(handed) = 2
    /\ Len(events) = 1
    /\ events[1].num_nodes = 2

(* ------------------- default backend: distinct keys -------------------- *)

\* The position of the process_node call that inserted this key.
InsertedAt(key) == CHOOSE i \in 1..Len(handed) : handed[i].call.key = key

\* C30: when no key was passed to process_node twice, the prev of every node
\* is one of the deps the node was processed with and was inserted strictly
\* before the node; so the prev chains have no cycle and do not dangle,
\* extract_critical_path reports no cycle, and the duration it returns for
\* each node of the path is that node's own critical-path duration.
C30_PrevIsEarlierOwnDep ==
    DistinctKeys =>
        /\ DOMAIN backend.predecessors = {handed[i].call.key : i \in 1..Len(handed)}
        /\ \A k \in DOMAIN backend.predecessors :
            LET node == backend.predecessors[k] IN
            node.prev # None =>
                /\ node.prev[1] \in DistinctDeps(handed[InsertedAt(k)].call)
                /\ node.prev[1] \in DOMAIN backend.predecessors
                /\ InsertedAt(node.prev[1]) < InsertedAt(k)
        /\ Acyclic(backend.predecessors)
        /\ rx_pc # "failed"
        /\ \A tail \in tails(backend.predecessors) :
            LET extracted == extract_critical_path(backend.predecessors, tail) IN
            /\ extracted.ok
            /\ \A i \in 1..Len(extracted.path) :
                extracted.path[i].duration
                    = critical_path_duration(extracted.path[i].value.duration)

\* Build 2 (2 s) was processed first, then build 1 (1 s) depending on 2,
\* then build 3 (1 s) depending on 2 and 1: the path is 2, 1, 3.
C30_Witness ==
    /\ DistinctKeys
    /\ rx_pc = "done"
    /\ Len(handed) = 3
    /\ handed[1].call.key = Key("BuildKey", 2)
    /\ handed[2].call.key = Key("BuildKey", 1)
    /\ handed[3].call.key = Key("BuildKey", 3)
    /\ backend.predecessors[Key("BuildKey", 1)].prev = Some(Key("BuildKey", 2))
    /\ backend.predecessors[Key("BuildKey", 3)].prev = Some(Key("BuildKey", 1))
    /\ backend.predecessors[Key("BuildKey", 3)].duration = 4
    /\ Len(events) = 1
    /\ Len(events[1].critical_path2) = 4

====
